---- MODULE Spec2Model ----
(***************************************************************************)
(* Model of the scoring and graph-construction engine of sollytics:        *)
(*   - the reputability-score route (analyzeWalletData,                    *)
(*     calculateReputabilityScore, generateAIExplanation,                  *)
(*     generateRecommendations and its POST handler),                      *)
(*   - the fund-flow-analysis route (analyzeFundFlows and its helpers),    *)
(*   - the fund-sources, developer-network, deployer-network and check-ca  *)
(*     routes,                                                             *)
(*   - the effect of the TransactionGraph component that fetches and       *)
(*     renders the graph of a wallet.                                      *)
(*                                                                         *)
(* Conventions.                                                            *)
(*   Amounts are counted in units of 1000 lamports, so 1 SOL (1e9          *)
(*   lamports) is 1000000 units: the inputs are restricted to multiples    *)
(*   of 1000 lamports, every threshold of the code is a multiple of it.    *)
(*   Times are counted in days (the inputs are restricted to whole days).  *)
(*   Fractions (ratios, ages) are exact rationals [n |-> num, d |-> den].  *)
(*   Addresses are integers naming sample strings: 0 is the empty string,  *)
(*   negative numbers are malformed strings, 1..899 are ordinary wallet    *)
(*   addresses, 900.. are the addresses the source lists by name.          *)
(***************************************************************************)
EXTENDS Integers, Sequences, FiniteSets, TLC

VARIABLES
    endpoint,            \* the route handling the request
    pc,                  \* position of the handler
    reqAddress,          \* walletAddress / developerAddress / mintAddress / address of the body
    reqDeployer,         \* deployerAddress of a fund-sources body (0 when absent)
    upstreamCalls,       \* number of calls made to the chain-data provider
    now,                 \* Date.now() of the request, in days
    transactions,        \* scoring route: let transactions
    tokenBalances,       \* scoring route: let tokenBalances (number of entries)
    accountInfo,         \* scoring route: let accountInfo ("null" or "info")
    fetchFailed,         \* scoring route: the set of sub-fetches that threw
    analysis,            \* walletAnalysis
    score,
    factors,
    riskLevel,
    explanation,
    recommendations,
    signatures,          \* fund-flow: result of getSignaturesForAddress
    sigIndex,            \* fund-flow: number of signatures folded so far
    skipped,             \* fund-flow: indices of the transactions skipped
    fundSources,         \* fund-flow: the Map, as a sequence in insertion order
    totalFundsReceived,
    totalFundsSent,
    fundingSources,
    nodes,
    links,
    riskScore,
    suspiciousPatterns,
    majorSources,        \* fund-flow: ids of the nodes chosen for secondary expansion
    srcIndex,            \* fund-flow: number of major sources expanded so far
    response,            \* the HTTP response, [status |-> 0] while none
    wallet,              \* TransactionGraph: the wallet prop
    svgRef,              \* TransactionGraph: svgRef.current, "null" or "svg"
    svg,                 \* TransactionGraph: the graph drawn in the SVG element
    loading,             \* TransactionGraph: useState(true)
    errorMsg,            \* TransactionGraph: the state error, "null" for null
    fetchProgress,       \* TransactionGraph: useState(null), "null" for null
    pendingEffect,       \* TransactionGraph: the effect of the last render has not run yet
    effects              \* TransactionGraph: the closures of the effects run so far

vars == << endpoint, pc, reqAddress, reqDeployer, upstreamCalls, now, transactions,
           tokenBalances, accountInfo, fetchFailed, analysis, score, factors,
           riskLevel, explanation, recommendations, signatures, sigIndex, skipped,
           fundSources, totalFundsReceived, totalFundsSent, fundingSources, nodes,
           links, riskScore, suspiciousPatterns, majorSources, srcIndex, response,
           wallet, svgRef, svg, loading, errorMsg, fetchProgress, pendingEffect, effects >>

componentVars == << wallet, svgRef, svg, loading, errorMsg, fetchProgress, pendingEffect,
                    effects >>

scoreVars == << now, transactions, tokenBalances, accountInfo, fetchFailed, analysis,
                score, factors, riskLevel, explanation, recommendations >>

flowVars == << signatures, sigIndex, skipped, fundSources, totalFundsReceived,
               totalFundsSent, fundingSources, nodes, links, riskScore,
               suspiciousPatterns, majorSources, srcIndex >>

-----------------------------------------------------------------------------
(* Units and generic helpers *)

SOL == 1000000

Min(a, b) == IF a < b THEN a ELSE b
Max(a, b) == IF a > b THEN a ELSE b
Abs(a) == IF a < 0 THEN -a ELSE a

Rat(n, d) == [n |-> n, d |-> d]

\* Math.round(k * q) for a rational q >= 0: floor(k*q + 1/2)
RoundTimes(k, q) == (2 * k * q.n + q.d) \div (2 * q.d)

\* q > a/b and q < a/b for a rational q and a literal a/b
RatGT(q, a, b) == q.n * b > a * q.d
RatLT(q, a, b) == q.n * b < a * q.d

Prefix(s, k) == SubSeq(s, 1, Min(k, Len(s)))

Range(s) == { s[i] : i \in 1..Len(s) }

-----------------------------------------------------------------------------
(* Addresses *)

(* Named addresses of the source:                                           *)
(*   900 9hFtS2.., 901 8JzMwD.., 902 7YttLk.. (scam addresses)               *)
(*   903 ScamProgram111.., 904 FakeToken222.., 905 MaliciousDEX111..         *)
(*   910 JUP6Lk.. (Jupiter), 911 9WzDXw.. (Raydium in part_000, "FTX" in the *)
(*   graph routes), 912 MarBms.. (Marinade), 913 whirLb.. (Orca)             *)
(*   920 5Q544f.. (Binance), 921 2ojv9B.. (Coinbase)                         *)
(*   930 Stake111.., 931 111..1 (System Program), 932 Tokenkeg.. (Token      *)
(*   Program), 933 9xQeWv.. (Serum DEX), 934 So111..112 (Wrapped SOL)        *)
EmptyAddress == 0
MalformedAddresses == { -1, -2, -3 }    \* "abc"; 44 characters with a '0'; 45 base58 characters

\* length of the string an address id stands for
AddrLen(a) ==
    CASE a = 0    -> 0
      [] a = -1   -> 3
      [] a = -2   -> 44
      [] a = -3   -> 45
      [] a = 931  -> 32
      [] a \in {905, 910, 912, 913, 930, 932, 934} -> 43
      [] OTHER    -> 44

\* every character is in the base58 alphabet [1-9A-HJ-NP-Za-km-z]
AddrBase58(a) == a \notin { -2, 905 }

\* /^[1-9A-HJ-NP-Za-km-z]{32,44}$/.test(address)
IsValidAddress(a) == AddrLen(a) >= 32 /\ AddrLen(a) <= 44 /\ AddrBase58(a)

\* address.includes("1111")
Includes1111(a) == a \in {903, 905, 930, 931, 934}
\* address.startsWith("So1")
StartsWithSo1(a) == a = 934
\* address.startsWith("11111")
StartsWith11111(a) == a = 931

SCAM_ADDRESSES == {900, 901, 902, 903, 904}
BLACKLISTED_PROGRAMS == {903, 904, 905}
LEGITIMATE_PROGRAMS == {910, 911, 912, 913}
StakeProgram == 930

-----------------------------------------------------------------------------
(* Reputability score: src/unnamed/part_000 *)

Factor(name, impact, type) == [name |-> name, impact |-> impact, type |-> type]

flaggedPenalty(a) == a.flaggedInteractions * 15
blacklistedPenalty(a) == a.blacklistedProgramUsage * 20
largeTransferPenaltyUncapped(a) == a.largeTransfers * 3
largeTransferPenalty(a) == Min(a.largeTransfers * 3, 30)
diversityBonus(a) == RoundTimes(20, a.counterpartyDiversity)
stakingBonus(a) == RoundTimes(25, a.stakingActivityRatio)
ageBonusCeil(a) == Min((2 * a.walletAgeMonths.n + a.walletAgeMonths.d - 1) \div a.walletAgeMonths.d, 24)
ageBonus(a) == Min(RoundTimes(2, a.walletAgeMonths), 24)
legitimateBonus(a) == Min(a.legitimateProgramUsage * 2, 20)
activityBonus(a) == Min(RoundTimes(5, a.transactionFrequency), 15)

NormalizeNoFloor(s) == Min(100, s)
\* Math.max(0, Math.min(100, Math.round(score))): the sum is an integer already
Normalize(s) == Max(0, Min(100, s))

scoreFactors(a) ==
    << Factor("Flagged Address Interactions", -flaggedPenalty(a),
              IF a.flaggedInteractions > 0 THEN "negative" ELSE "positive"),
       Factor("Blacklisted Program Usage", -blacklistedPenalty(a),
              IF a.blacklistedProgramUsage > 0 THEN "negative" ELSE "positive"),
       Factor("Large Transfer Activity", -largeTransferPenalty(a),
              IF a.largeTransfers > 5 THEN "negative" ELSE "neutral"),
       Factor("Counterparty Diversity", diversityBonus(a),
              IF RatGT(a.counterpartyDiversity, 3, 10) THEN "positive" ELSE "neutral"),
       Factor("Staking Activity", stakingBonus(a),
              IF RatGT(a.stakingActivityRatio, 1, 10) THEN "positive" ELSE "neutral"),
       Factor("Wallet Age", ageBonus(a),
              IF RatGT(a.walletAgeMonths, 3, 1) THEN "positive" ELSE "neutral"),
       Factor("Legitimate Program Usage", legitimateBonus(a),
              IF a.legitimateProgramUsage > 0 THEN "positive" ELSE "neutral"),
       Factor("Transaction Activity", activityBonus(a),
              IF RatGT(a.transactionFrequency, 1, 10) /\ RatLT(a.transactionFrequency, 10, 1)
              THEN "positive" ELSE "neutral") >>

\* the same with the activity bonus listed as a factor but not added
calculateReputabilityScoreUnlisted(a) ==
    [score |-> Normalize(50 - flaggedPenalty(a) - blacklistedPenalty(a)
                            - largeTransferPenalty(a) + diversityBonus(a) + stakingBonus(a)
                            + ageBonus(a) + legitimateBonus(a)),
     factors |-> scoreFactors(a)]

calculateReputabilityScore(a) ==
    LET s1 == 50 - flaggedPenalty(a)
        s2 == s1 - blacklistedPenalty(a)
        s3 == s2 - largeTransferPenalty(a)
        s4 == s3 + diversityBonus(a)
        s5 == s4 + stakingBonus(a)
        s6 == s5 + ageBonus(a)
        s7 == s6 + legitimateBonus(a)
        s8 == s7 + activityBonus(a)
    IN  [score |-> Normalize(s8), factors |-> scoreFactors(a)]

RiskLevelStrict(s) == IF s > 80 THEN "low" ELSE IF s > 60 THEN "medium" ELSE "high"
\* POST: score >= 80 ? "low" : score >= 60 ? "medium" : "high"
RiskLevel(s) == IF s >= 80 THEN "low" ELSE IF s >= 60 THEN "medium" ELSE "high"


(* generateRecommendations *)
RecFlagged == "Avoid future interactions with flagged or suspicious addresses to improve reputation"
RecBlacklisted == "Cease using blacklisted programs and stick to verified DeFi protocols"
RecStaking == "Consider staking SOL or tokens to demonstrate long-term commitment to the ecosystem"
RecDiversity == "Diversify transaction counterparties to show legitimate usage patterns"
RecLegitimate == "Increase usage of verified DeFi protocols like Jupiter, Raydium, or Marinade"
RecAge == "Continue building transaction history over time to establish credibility"
RecLarge == "Reduce frequency of large transfers to avoid triggering risk algorithms"
RecDefault1 == "Maintain current positive behavior patterns and continue regular DeFi participation"
RecDefault2 == "Consider increasing staking activity to further improve reputation score"

If(c, s) == IF c THEN << s >> ELSE << >>

generateRecommendationsFrom10(a, s) ==
    LET r == If(a.flaggedInteractions > 0, RecFlagged)
             \o If(a.blacklistedProgramUsage > 0, RecBlacklisted)
             \o If(RatLT(a.stakingActivityRatio, 1, 10), RecStaking)
             \o If(RatLT(a.counterpartyDiversity, 3, 10), RecDiversity)
             \o If(a.legitimateProgramUsage < 3, RecLegitimate)
             \o If(RatLT(a.walletAgeMonths, 3, 1), RecAge)
             \o If(a.largeTransfers >= 10, RecLarge)
    IN  IF Len(r) = 0 THEN << RecDefault1, RecDefault2 >> ELSE r

generateRecommendations(a, s) ==
    LET r == If(a.flaggedInteractions > 0, RecFlagged)
             \o If(a.blacklistedProgramUsage > 0, RecBlacklisted)
             \o If(RatLT(a.stakingActivityRatio, 1, 10), RecStaking)
             \o If(RatLT(a.counterpartyDiversity, 3, 10), RecDiversity)
             \o If(a.legitimateProgramUsage < 3, RecLegitimate)
             \o If(RatLT(a.walletAgeMonths, 3, 1), RecAge)
             \o If(a.largeTransfers > 10, RecLarge)
    IN  IF Len(r) = 0 THEN << RecDefault1, RecDefault2 >> ELSE r

(* generateAIExplanation: the text the model returned, or the catch block's  *)
(* template with the fields it interpolates                                 *)
GeneratedText(text) == [template |-> "generated", text |-> text]

FallbackBracketSwapped(s) == IF s >= 60 THEN "excellent" ELSE IF s >= 80 THEN "good" ELSE "concerning"
FallbackBracket(s) == IF s >= 80 THEN "excellent" ELSE IF s >= 60 THEN "good" ELSE "concerning"

FallbackExplanation(a, s) ==
    LET b == FallbackBracket(s)
    IN  CASE b = "excellent" ->
               [template |-> b, score |-> s,
                shown |-> << a.counterpartyCount, a.walletAgeMonths, a.legitimateProgramUsage >>]
          [] b = "good" ->
               [template |-> b, score |-> s,
                shown |-> << a.flaggedInteractions, a.largeTransfers, a.stakingTransactions,
                             a.walletAgeMonths >>]
          [] OTHER ->
               [template |-> b, score |-> s,
                shown |-> << a.flaggedInteractions, a.blacklistedProgramUsage, a.largeTransfers,
                             a.walletAgeMonths >>]

(* analyzeWalletData *)
NativeIdx(txs) ==
    UNION { { << i, j >> : j \in 1..Len(txs[i].nativeTransfers) } : i \in 1..Len(txs) }
TokenIdx(txs) ==
    UNION { { << i, j >> : j \in 1..Len(txs[i].tokenTransfers) } : i \in 1..Len(txs) }
InstrIdx(txs) ==
    UNION { { << i, j >> : j \in 1..Len(txs[i].instructions) } : i \in 1..Len(txs) }

Native(txs, p) == txs[p[1]].nativeTransfers[p[2]]
Token(txs, p) == txs[p[1]].tokenTransfers[p[2]]
Instr(txs, p) == txs[p[1]].instructions[p[2]]

\* totalVolume += transfer.amount || 0, over the native transfers P
RECURSIVE TotalVolume(_, _)
TotalVolume(txs, P) ==
    IF P = {} THEN 0
    ELSE LET p == CHOOSE q \in P : TRUE
         IN  Native(txs, p).amount + TotalVolume(txs, P \ {p})

Counterparties(txs, walletAddress) ==
    ( { Native(txs, p).fromUserAccount : p \in NativeIdx(txs) }
      \cup { Native(txs, p).toUserAccount : p \in NativeIdx(txs) }
      \cup { Token(txs, p).fromUserAccount : p \in TokenIdx(txs) }
      \cup { Token(txs, p).toUserAccount : p \in TokenIdx(txs) } )
    \ { walletAddress }

OldestTransaction(txs, t) ==
    LET times == { txs[i].timestamp : i \in 1..Len(txs) } \cup { t }
    IN  CHOOSE m \in times : \A x \in times : m <= x

IsStaking(ins) == ins.programId = StakeProgram \/ ins.dataStake \/ ins.dataDelegate

\* Math.max(0.1, walletAgeMs / month) when there are transactions, else 0.1
WalletAgeMonths(txs, t) ==
    LET ageDays == t - OldestTransaction(txs, t)
    IN  IF Len(txs) > 0 /\ ageDays * 10 > 30 THEN Rat(ageDays, 30) ELSE Rat(1, 10)

CounterpartyDiversityUncapped(txs, cp) ==
    IF Len(txs) = 0 THEN Rat(0, 1)
    ELSE IF Len(txs) <= 2 THEN Rat(cp, 1) ELSE Rat(2 * cp, Len(txs))

\* Math.min(1, counterparties.size / Math.max(1, transactions.length * 0.5))
CounterpartyDiversity(txs, cp) ==
    IF Len(txs) = 0 THEN Rat(0, 1)
    ELSE LET q == IF Len(txs) <= 2 THEN Rat(cp, 1) ELSE Rat(2 * cp, Len(txs))
         IN  IF q.n > q.d THEN Rat(1, 1) ELSE q

analyzeWalletData(txs, balances, info, walletAddress, t) ==
    LET cps == Counterparties(txs, walletAddress)
        programs == { Instr(txs, p).programId : p \in { q \in InstrIdx(txs) : Instr(txs, q).programId # 0 } }
        used == { p \in InstrIdx(txs) : Instr(txs, p).programId # 0 }
        staking == Cardinality({ p \in used : IsStaking(Instr(txs, p)) })
        recent == Cardinality({ i \in 1..Len(txs) : txs[i].timestamp > t - 30 })
    IN  [ flaggedInteractions |->
              Cardinality({ p \in NativeIdx(txs) :
                  Native(txs, p).fromUserAccount \in SCAM_ADDRESSES
                  \/ Native(txs, p).toUserAccount \in SCAM_ADDRESSES }),
          blacklistedProgramUsage |->
              Cardinality({ p \in used : Instr(txs, p).programId \in BLACKLISTED_PROGRAMS }),
          legitimateProgramUsage |->
              Cardinality({ p \in used : Instr(txs, p).programId \in LEGITIMATE_PROGRAMS }),
          largeTransfers |->
              Cardinality({ p \in NativeIdx(txs) : Native(txs, p).amount > 10 * SOL }),
          totalVolume |-> TotalVolume(txs, NativeIdx(txs)),
          counterpartyCount |-> Cardinality(cps),
          counterpartyDiversity |-> CounterpartyDiversity(txs, Cardinality(cps)),
          walletAgeMonths |-> WalletAgeMonths(txs, t),
          transactionCount |-> Len(txs),
          recentTransactions |-> recent,
          transactionFrequency |-> Rat(recent, 30),
          stakingTransactions |-> staking,
          stakingActivityRatio |-> IF Len(txs) > 0 THEN Rat(staking, Len(txs)) ELSE Rat(0, 1),
          tokenCount |-> Len(balances),
          hasStakedTokens |-> \E i \in 1..Len(balances) : balances[i],
          uniquePrograms |-> Cardinality(programs) ]

-----------------------------------------------------------------------------
(* Values before a handler has produced anything *)

NoAnalysis ==
    [ flaggedInteractions |-> 0, blacklistedProgramUsage |-> 0, legitimateProgramUsage |-> 0,
      largeTransfers |-> 0, totalVolume |-> 0, counterpartyCount |-> 0,
      counterpartyDiversity |-> Rat(0, 1), walletAgeMonths |-> Rat(1, 10),
      transactionCount |-> -1, recentTransactions |-> 0, transactionFrequency |-> Rat(0, 1),
      stakingTransactions |-> 0, stakingActivityRatio |-> Rat(0, 1), tokenCount |-> 0,
      hasStakedTokens |-> FALSE, uniquePrograms |-> 0 ]

NoExplanation == [template |-> "none"]
NoResponse == [status |-> 0]

\* no component is mounted
NoGraph == [wallet |-> 0, nodes |-> 0]

ComponentIdle ==
    /\ wallet = 0
    /\ svgRef = "null"
    /\ svg = NoGraph
    /\ loading = TRUE
    /\ errorMsg = "null"
    /\ fetchProgress = "null"
    /\ pendingEffect = FALSE
    /\ effects = << >>

ScoreIdle ==
    /\ now = 0
    /\ transactions = << >>
    /\ tokenBalances = << >>
    /\ accountInfo = "null"
    /\ fetchFailed = {}
    /\ analysis = NoAnalysis
    /\ score = -1
    /\ factors = << >>
    /\ riskLevel = "none"
    /\ explanation = NoExplanation
    /\ recommendations = << >>

FlowIdle ==
    /\ signatures = << >>
    /\ sigIndex = 0
    /\ skipped = {}
    /\ fundSources = << >>
    /\ totalFundsReceived = 0
    /\ totalFundsSent = 0
    /\ fundingSources = 0
    /\ nodes = << >>
    /\ links = << >>
    /\ riskScore = 0
    /\ suspiciousPatterns = << >>
    /\ majorSources = << >>
    /\ srcIndex = 0

-----------------------------------------------------------------------------
(* The scoring functions applied to analysis objects: specification SpecCalc *)

MaxCount == 2

DiversitySamples == { Rat(0, 1), Rat(2, 5), Rat(1, 1) }
StakingSamples == { Rat(0, 1), Rat(1, 5), Rat(1, 1) }
AgeSamples == { Rat(1, 10), Rat(6, 1), Rat(13, 1) }
FrequencySamples == { Rat(0, 1), Rat(1, 2), Rat(4, 1) }
LargeTransferSamples == { 0, 2, 5, 10, 11, 100 }
LegitimateSamples == { 0, 4, 11 }

AnalysisInputs ==
    { [ NoAnalysis EXCEPT !.flaggedInteractions = f, !.blacklistedProgramUsage = b,
                          !.largeTransfers = l, !.counterpartyDiversity = d,
                          !.stakingActivityRatio = s, !.walletAgeMonths = a,
                          !.legitimateProgramUsage = g, !.transactionFrequency = q,
                          !.transactionCount = 10 ] :
        f \in 0..MaxCount, b \in 0..MaxCount, l \in LargeTransferSamples,
        d \in DiversitySamples, s \in StakingSamples, a \in AgeSamples,
        g \in LegitimateSamples, q \in FrequencySamples }

InitCalc ==
    /\ endpoint = "calc"
    /\ pc = "calc"
    /\ reqAddress = 1
    /\ reqDeployer = 0
    /\ upstreamCalls = 0
    /\ response = NoResponse
    /\ now = 0
    /\ transactions = << >>
    /\ tokenBalances = << >>
    /\ accountInfo = "null"
    /\ fetchFailed = {}
    /\ analysis \in AnalysisInputs
    /\ score = -1
    /\ factors = << >>
    /\ riskLevel = "none"
    /\ explanation = NoExplanation
    /\ recommendations = << >>
    /\ FlowIdle
    /\ ComponentIdle

\* calculateReputabilityScore, the risk level of POST and generateRecommendations
CalcScore ==
    /\ pc = "calc"
    /\ LET r == calculateReputabilityScore(analysis)
       IN  /\ score' = r.score
           /\ factors' = r.factors
           /\ riskLevel' = RiskLevel(r.score)
           /\ recommendations' = generateRecommendations(analysis, r.score)
    /\ pc' = "scored"
    /\ UNCHANGED << endpoint, reqAddress, reqDeployer, upstreamCalls, now, transactions,
                    tokenBalances, accountInfo, fetchFailed, analysis, explanation, response >>
    /\ UNCHANGED flowVars
    /\ UNCHANGED componentVars

NextCalc == CalcScore

SpecCalc == InitCalc /\ [][NextCalc]_vars

-----------------------------------------------------------------------------
(* Requests *)

Endpoints == { "reputability-score", "fund-flow-analysis", "fund-sources",
               "developer-network", "deployer-network", "check-ca" }

ValidRequestAddresses == { 1 }
RequestAddresses == { EmptyAddress } \cup MalformedAddresses \cup ValidRequestAddresses

\* NextResponse.json({ error }, { status })
ErrorResponse(status, error) == [status |-> status, error |-> error]

-----------------------------------------------------------------------------
(* The reputability-score route: POST of src/unnamed/part_000 *)

MaxTxs == 2

Transfer(from, to, amount) == [fromUserAccount |-> from, toUserAccount |-> to, amount |-> amount]
TokenTransfer(from, to) == [fromUserAccount |-> from, toUserAccount |-> to]
Instruction(programId, stake, delegate) ==
    [programId |-> programId, dataStake |-> stake, dataDelegate |-> delegate]

\* sample enriched transactions of wallet w: a small incoming transfer five
\* days ago, a large transfer to a scam address through a blacklisted
\* program, a staking transaction through a verified program
HistorySamples(w) ==
    { [ timestamp |-> 95,
        nativeTransfers |-> << Transfer(2, w, SOL) >>,
        tokenTransfers |-> << >>,
        instructions |-> << Instruction(931, FALSE, FALSE) >> ],
      [ timestamp |-> 10,
        nativeTransfers |-> << Transfer(w, 900, 20 * SOL) >>,
        tokenTransfers |-> << >>,
        instructions |-> << Instruction(903, FALSE, FALSE) >> ],
      [ timestamp |-> 80,
        nativeTransfers |-> << >>,
        tokenTransfers |-> << TokenTransfer(w, 3) >>,
        instructions |-> << Instruction(930, TRUE, FALSE), Instruction(910, FALSE, FALSE) >> ] }

SeqsUpTo(S, n) == UNION { [1..k -> S] : k \in 0..n }

Histories(w) == SeqsUpTo(HistorySamples(w), MaxTxs)
BalanceSamples == { << >>, << TRUE, FALSE >> }
Times == { 100, 200 }
TextSamples == { "grok text" }

\* lines 31-42: the body is read and the address validated
ScoreValidate ==
    /\ endpoint = "reputability-score"
    /\ pc = "start"
    /\ IF reqAddress = EmptyAddress
       THEN /\ response' = ErrorResponse(400, "Wallet address is required")
            /\ pc' = "done"
       ELSE IF ~IsValidAddress(reqAddress)
       THEN /\ response' = ErrorResponse(400, "Invalid wallet address format")
            /\ pc' = "done"
       ELSE /\ response' = response
            /\ pc' = "fetchTransactions"
    /\ UNCHANGED << endpoint, reqAddress, reqDeployer, upstreamCalls >>
    /\ UNCHANGED scoreVars
    /\ UNCHANGED flowVars
    /\ UNCHANGED componentVars

\* lines 49-55: getTransactionHistory returns a list or throws
ScoreFetchTransactions ==
    /\ endpoint = "reputability-score"
    /\ pc = "fetchTransactions"
    /\ upstreamCalls' = upstreamCalls + 1
    /\ \/ \E txs \in Histories(reqAddress) :
             /\ transactions' = txs
             /\ fetchFailed' = fetchFailed
       \/ /\ transactions' = << >>
          /\ fetchFailed' = fetchFailed \cup { "getTransactionHistory" }
    /\ pc' = "fetchBalances"
    /\ UNCHANGED << endpoint, reqAddress, reqDeployer, response, now, tokenBalances,
                    accountInfo, analysis, score, factors, riskLevel, explanation,
                    recommendations >>
    /\ UNCHANGED flowVars
    /\ UNCHANGED componentVars

\* lines 57-63: getTokenBalances returns a list or throws
ScoreFetchBalances ==
    /\ endpoint = "reputability-score"
    /\ pc = "fetchBalances"
    /\ upstreamCalls' = upstreamCalls + 1
    /\ \/ \E b \in BalanceSamples :
             /\ tokenBalances' = b
             /\ fetchFailed' = fetchFailed
       \/ /\ tokenBalances' = << >>
          /\ fetchFailed' = fetchFailed \cup { "getTokenBalances" }
    /\ pc' = "fetchAccountInfo"
    /\ UNCHANGED << endpoint, reqAddress, reqDeployer, response, now, transactions,
                    accountInfo, analysis, score, factors, riskLevel, explanation,
                    recommendations >>
    /\ UNCHANGED flowVars
    /\ UNCHANGED componentVars

\* lines 65-80: getAccountInfo returns or throws; then analyzeWalletData and
\* calculateReputabilityScore run and generateText is called
ScoreFetchAccountInfo ==
    /\ endpoint = "reputability-score"
    /\ pc = "fetchAccountInfo"
    /\ upstreamCalls' = upstreamCalls + 1
    /\ \/ /\ accountInfo' = "info"
          /\ fetchFailed' = fetchFailed
       \/ /\ accountInfo' = "null"
          /\ fetchFailed' = fetchFailed \cup { "getAccountInfo" }
    /\ \E t \in Times :
          /\ now' = t
          /\ analysis' = analyzeWalletData(transactions, tokenBalances, accountInfo',
                                           reqAddress, t)
    /\ LET r == calculateReputabilityScore(analysis')
       IN  /\ score' = r.score
           /\ factors' = r.factors
    /\ pc' = "generateText"
    /\ UNCHANGED << endpoint, reqAddress, reqDeployer, response, transactions,
                    tokenBalances, riskLevel, explanation, recommendations >>
    /\ UNCHANGED flowVars
    /\ UNCHANGED componentVars

\* lines 82-95: what POST does once generateAIExplanation has returned
ScoreRespond(text) ==
    /\ explanation' = text
    /\ riskLevel' = RiskLevel(score)
    /\ recommendations' = generateRecommendations(analysis, score)
    /\ response' = [ status |-> 200, score |-> score, explanation |-> text,
                     factors |-> factors, riskLevel |-> RiskLevel(score),
                     recommendations |-> generateRecommendations(analysis, score),
                     walletAnalysis |-> analysis ]
    /\ pc' = "done"
    /\ UNCHANGED << endpoint, reqAddress, reqDeployer, upstreamCalls, now, transactions,
                    tokenBalances, accountInfo, fetchFailed, analysis, score, factors >>
    /\ UNCHANGED flowVars
    /\ UNCHANGED componentVars

\* lines 331-338: the text-generation service replies
GenerateTextReturns ==
    /\ endpoint = "reputability-score"
    /\ pc = "generateText"
    /\ \E text \in TextSamples : ScoreRespond(GeneratedText(text))

\* lines 339-350: generateText throws and the template is returned
GenerateTextThrows ==
    /\ endpoint = "reputability-score"
    /\ pc = "generateText"
    /\ ScoreRespond(FallbackExplanation(analysis, score))

NextScore ==
    \/ ScoreValidate
    \/ ScoreFetchTransactions
    \/ ScoreFetchBalances
    \/ ScoreFetchAccountInfo
    \/ GenerateTextReturns
    \/ GenerateTextThrows

InitRequest ==
    /\ pc = "start"
    /\ reqAddress \in RequestAddresses
    /\ upstreamCalls = 0
    /\ response = NoResponse
    /\ ScoreIdle
    /\ FlowIdle
    /\ ComponentIdle

InitScore ==
    /\ endpoint = "reputability-score"
    /\ reqDeployer = EmptyAddress
    /\ InitRequest

SpecScore == InitScore /\ [][NextScore]_vars

-----------------------------------------------------------------------------
(* Fund-flow analysis: src/app/api/fund-flow-analysis/route.ts *)

NodeCap == 30
LinkCap == 50
PatternCap == 5

\* a getTransaction result: the account keys with their balances before and
\* after, and the program ids of the instructions
RpcTx(keys, pre, post, programs) ==
    [accountKeys |-> keys, preBalances |-> pre, postBalances |-> post, instructions |-> programs]

\* accountKeys.findIndex(key => key === address), 0 for -1
FindIndex(keys, address) ==
    IF \E i \in 1..Len(keys) : keys[i] = address
    THEN CHOOSE i \in 1..Len(keys) : keys[i] = address /\ \A j \in 1..(i - 1) : keys[j] # address
    ELSE 0

\* programId?.includes("Stake")
IncludesStake(programId) == programId = 930

RECURSIVE determineFundFlowType(_)
determineFundFlowType(programs) ==
    IF programs = << >> THEN "unknown"
    ELSE LET programId == Head(programs)
         IN  IF programId = 931 THEN "transfer"
             ELSE IF programId = 932 THEN "token_transfer"
             ELSE IF programId = 933 THEN "dex_trade"
             ELSE IF IncludesStake(programId) THEN "staking"
             ELSE determineFundFlowType(Tail(programs))

Flow(address, amount, type, direction) ==
    [address |-> address, amount |-> amount, type |-> type, direction |-> direction]

\* lines 328-346: the flows analyzeFundFlow collects for the account indices
\* lo..hi, in index order (the range is split in halves to keep the
\* evaluation shallow)
RECURSIVE FlowsFrom(_, _, _, _, _)
FlowsFrom(tx, developerIndex, developerBalanceChange, lo, hi) ==
    IF lo > hi THEN << >>
    ELSE IF lo = hi
    THEN LET balanceChange == tx.postBalances[lo] - tx.preBalances[lo]
         IN  IF lo # developerIndex /\ Abs(balanceChange) > 10
             THEN << Flow(tx.accountKeys[lo], Abs(balanceChange),
                          determineFundFlowType(tx.instructions),
                          IF developerBalanceChange > 0 THEN "incoming" ELSE "outgoing") >>
             ELSE << >>
    ELSE LET mid == (lo + hi) \div 2
         IN  FlowsFrom(tx, developerIndex, developerBalanceChange, lo, mid)
             \o FlowsFrom(tx, developerIndex, developerBalanceChange, mid + 1, hi)

\* the same with the sign of the developer's balance change inverted
analyzeFundFlowInverted(tx, developerAddress) ==
    LET developerIndex == FindIndex(tx.accountKeys, developerAddress)
    IN  IF developerIndex = 0 THEN << >>
        ELSE FlowsFrom(tx, developerIndex,
                       tx.preBalances[developerIndex] - tx.postBalances[developerIndex],
                       1, Len(tx.accountKeys))

analyzeFundFlow(tx, developerAddress) ==
    LET developerIndex == FindIndex(tx.accountKeys, developerAddress)
    IN  IF developerIndex = 0 THEN << >>
        ELSE FlowsFrom(tx, developerIndex,
                       tx.postBalances[developerIndex] - tx.preBalances[developerIndex],
                       1, Len(tx.accountKeys))

Exchanges == {920, 911, 921}

\* the same with 'unknown' for what no rule classifies
classifyFundSourceUnknown(address, flowType, amount) ==
    IF address \in Exchanges THEN "exchange"
    ELSE IF amount > 10 * SOL THEN "whale"
    ELSE IF flowType = "dex_trade" THEN "exchange"
    ELSE IF flowType = "staking" THEN "contract"
    ELSE IF flowType = "token_transfer" THEN "contract"
    ELSE IF AddrLen(address) = 44 /\ (Includes1111(address) \/ StartsWithSo1(address))
    THEN "contract"
    ELSE IF flowType = "unknown" THEN "unknown"
    ELSE "fund_source"

classifyFundSource(address, flowType, amount) ==
    IF address \in Exchanges THEN "exchange"
    ELSE IF amount > 10 * SOL THEN "whale"
    ELSE IF flowType = "dex_trade" THEN "exchange"
    ELSE IF flowType = "staking" THEN "contract"
    ELSE IF flowType = "token_transfer" THEN "contract"
    ELSE IF AddrLen(address) = 44 /\ (Includes1111(address) \/ StartsWithSo1(address))
    THEN "contract"
    ELSE "fund_source"

classifyFlowType(type) ==
    CASE type = "transfer" -> "funding"
      [] type = "dex_trade" -> "exchange"
      [] type = "token_transfer" -> "contract_interaction"
      [] type = "staking" -> "contract_interaction"
      [] OTHER -> "funding"

assessAddressRisk(address, amount, type) ==
    IF address \in Exchanges THEN "low"
    ELSE IF amount > 100 * SOL /\ type = "unknown" THEN "high"
    ELSE IF amount > 10 * SOL THEN "medium"
    ELSE "low"

\* getAddressLabel(address) || fallback
LabelOr(address, fallback) ==
    CASE address = 920 -> "Binance"
      [] address = 911 -> "FTX"
      [] address = 921 -> "Coinbase"
      [] address = 934 -> "Wrapped SOL"
      [] address = 931 -> "System Program"
      [] address = 933 -> "Serum DEX"
      [] address = 932 -> "Token Program"
      [] OTHER -> fallback

ToUpperCase(type) ==
    CASE type = "exchange" -> "EXCHANGE"
      [] type = "whale" -> "WHALE"
      [] type = "contract" -> "CONTRACT"
      [] OTHER -> "FUND_SOURCE"

\* index of the record of address in the Map, 0 when it has none
MapIndex(map, address) ==
    IF \E i \in 1..Len(map) : map[i].address = address
    THEN CHOOSE i \in 1..Len(map) : map[i].address = address
    ELSE 0

MergeFlowLastDiffers(st, flow, blockTime) ==
    LET i == MapIndex(st.fundSources, flow.address)
        merged ==
            IF i # 0
            THEN [ st.fundSources EXCEPT
                     ![i] = [ @ EXCEPT !.amount = @ + flow.amount,
                                       !.count = @ + 1,
                                       !.lastSeen = Max(@, blockTime),
                                       !.direction = IF @ = flow.direction THEN @
                                                     ELSE IF @ = "both" THEN flow.direction
                                                     ELSE "both" ] ]
            ELSE Append(st.fundSources,
                        [ address |-> flow.address, amount |-> flow.amount, count |-> 1,
                          type |-> flow.type, lastSeen |-> blockTime,
                          direction |-> flow.direction,
                          riskLevel |-> assessAddressRisk(flow.address, flow.amount, flow.type) ])
    IN  [ fundSources |-> merged,
          totalFundsReceived |-> st.totalFundsReceived
                                 + (IF flow.direction = "incoming" THEN flow.amount ELSE 0),
          totalFundsSent |-> st.totalFundsSent
                             + (IF flow.direction = "incoming" THEN 0 ELSE flow.amount) ]

MergeFlowReassess(st, flow, blockTime) ==
    LET i == MapIndex(st.fundSources, flow.address)
        merged ==
            IF i # 0
            THEN [ st.fundSources EXCEPT
                     ![i] = [ @ EXCEPT !.amount = @ + flow.amount,
                                       !.count = @ + 1,
                                       !.lastSeen = Max(@, blockTime),
                                       !.direction = IF @ # flow.direction THEN "both" ELSE @,
                                       !.riskLevel =
                                           assessAddressRisk(flow.address,
                                                             st.fundSources[i].amount + flow.amount,
                                                             st.fundSources[i].type) ] ]
            ELSE Append(st.fundSources,
                        [ address |-> flow.address, amount |-> flow.amount, count |-> 1,
                          type |-> flow.type, lastSeen |-> blockTime,
                          direction |-> flow.direction,
                          riskLevel |-> assessAddressRisk(flow.address, flow.amount, flow.type) ])
    IN  [ fundSources |-> merged,
          totalFundsReceived |-> st.totalFundsReceived
                                 + (IF flow.direction = "incoming" THEN flow.amount ELSE 0),
          totalFundsSent |-> st.totalFundsSent
                             + (IF flow.direction = "incoming" THEN 0 ELSE flow.amount) ]

\* a flow of another direction than the stored one opens a second record
MergeFlowSplit(st, flow, blockTime) ==
    LET S == { i \in 1..Len(st.fundSources) :
                 /\ st.fundSources[i].address = flow.address
                 /\ st.fundSources[i].direction = flow.direction }
        merged ==
            IF S # {}
            THEN [ st.fundSources EXCEPT
                     ![CHOOSE i \in S : TRUE] =
                         [ @ EXCEPT !.amount = @ + flow.amount,
                                    !.count = @ + 1,
                                    !.lastSeen = Max(@, blockTime) ] ]
            ELSE Append(st.fundSources,
                        [ address |-> flow.address, amount |-> flow.amount, count |-> 1,
                          type |-> flow.type, lastSeen |-> blockTime,
                          direction |-> flow.direction,
                          riskLevel |-> assessAddressRisk(flow.address, flow.amount, flow.type) ])
    IN  [ fundSources |-> merged,
          totalFundsReceived |-> st.totalFundsReceived
                                 + (IF flow.direction = "incoming" THEN flow.amount ELSE 0),
          totalFundsSent |-> st.totalFundsSent
                             + (IF flow.direction = "incoming" THEN 0 ELSE flow.amount) ]

\* lines 108-133: one flow merged into the Map and the totals
MergeFlow(st, flow, blockTime) ==
    LET i == MapIndex(st.fundSources, flow.address)
        merged ==
            IF i # 0
            THEN [ st.fundSources EXCEPT
                     ![i] = [ @ EXCEPT !.amount = @ + flow.amount,
                                       !.count = @ + 1,
                                       !.lastSeen = Max(@, blockTime),
                                       !.direction = IF @ # flow.direction THEN "both" ELSE @ ] ]
            ELSE Append(st.fundSources,
                        [ address |-> flow.address, amount |-> flow.amount, count |-> 1,
                          type |-> flow.type, lastSeen |-> blockTime,
                          direction |-> flow.direction,
                          riskLevel |-> assessAddressRisk(flow.address, flow.amount, flow.type) ])
    IN  [ fundSources |-> merged,
          totalFundsReceived |-> st.totalFundsReceived
                                 + (IF flow.direction = "incoming" THEN flow.amount ELSE 0),
          totalFundsSent |-> st.totalFundsSent
                             + (IF flow.direction = "incoming" THEN 0 ELSE flow.amount) ]

\* fundFlow.flows.forEach: the flows merged from first to last (the list is
\* split in halves, the first half being merged before the second is entered,
\* to keep the evaluation shallow)
RECURSIVE MergeFlows(_, _, _)
MergeFlows(st, flows, blockTime) ==
    IF flows = << >> THEN st
    ELSE IF Len(flows) = 1 THEN MergeFlow(st, flows[1], blockTime)
    ELSE LET mid == Len(flows) \div 2
         IN  CHOOSE r \in { MergeFlows(left, SubSeq(flows, mid + 1, Len(flows)), blockTime) :
                            left \in { MergeFlows(st, SubSeq(flows, 1, mid), blockTime) } } : TRUE

DeveloperNode(developerAddress) ==
    [ id |-> developerAddress, group |-> 0, value |-> 0, label |-> "Developer",
      type |-> "developer", amount |-> 0, transactionCount |-> 0,
      fundDirection |-> "both", riskLevel |-> "medium" ]

\* data.amount > 0.001 * 1e9 && address !== developerAddress
IsMaterial(data, developerAddress) == data.amount > 1000 /\ data.address # developerAddress

\* lines 142-171: the node and link of one entry of the Map
AddSource(g, data, developerAddress) ==
    LET nodeType == classifyFundSource(data.address, data.type, data.amount)
        incoming == data.direction = "incoming"
    IN  IF IsMaterial(data, developerAddress)
        THEN [ nodes |-> Append(g.nodes,
                   [ id |-> data.address, group |-> Len(g.nodes), value |-> data.count,
                     label |-> LabelOr(data.address, ToUpperCase(nodeType)),
                     type |-> nodeType, amount |-> data.amount,
                     transactionCount |-> data.count,
                     fundDirection |-> data.direction, riskLevel |-> data.riskLevel ]),
               links |-> Append(g.links,
                   [ source |-> IF incoming THEN data.address ELSE developerAddress,
                     target |-> IF incoming THEN developerAddress ELSE data.address,
                     value |-> data.count, amount |-> data.amount,
                     type |-> classifyFlowType(data.type), frequency |-> data.count,
                     direction |-> IF incoming THEN "to_developer" ELSE "from_developer" ]),
               fundingSources |-> g.fundingSources + (IF incoming THEN 1 ELSE 0) ]
        ELSE g

\* lines 140-172: fundSources.forEach, in insertion order (the Map is split in
\* halves, the first half being visited before the second is entered, to keep
\* the evaluation shallow)
RECURSIVE BuildGraph(_, _, _)
BuildGraph(map, developerAddress, g) ==
    IF map = << >> THEN g
    ELSE IF Len(map) = 1 THEN AddSource(g, map[1], developerAddress)
    ELSE LET mid == Len(map) \div 2
         IN  CHOOSE r \in { BuildGraph(SubSeq(map, mid + 1, Len(map)), developerAddress, left) :
                            left \in { BuildGraph(SubSeq(map, 1, mid), developerAddress, g) } } : TRUE

detectSuspiciousPatternsAnyPair(ns, ls, totalReceived, totalSent) ==
    LET incomingIds == { ns[i].id : i \in { j \in 1..Len(ns) :
                             ns[j].fundDirection = "incoming" /\ ns[j].type # "developer" } }
        outgoingIds == { ns[i].id : i \in { j \in 1..Len(ns) :
                             ns[j].fundDirection = "outgoing" /\ ns[j].type # "developer" } }
        unknownSources == { i \in 1..Len(ns) : ns[i].type = "unknown" /\ ns[i].amount > SOL }
        highFrequencyLinks == { i \in 1..Len(ls) : ls[i].frequency > 20 }
        exchangeNodes == { i \in 1..Len(ns) : ns[i].type = "exchange" }
    IN  If(incomingIds # {} /\ outgoingIds # {}, "Circular funding detected")
        \o If(totalSent * 5 > totalReceived * 4 /\ totalSent > 5 * SOL, "Potential wash trading")
        \o If(Cardinality(unknownSources) > 3, "Multiple unknown funding sources")
        \o If(Cardinality(highFrequencyLinks) > 2, "High frequency transactions")
        \o If(exchangeNodes = {} /\ totalReceived > 10 * SOL, "No exchange funding detected")

detectSuspiciousPatternsFrom5(ns, ls, totalReceived, totalSent) ==
    LET incomingIds == { ns[i].id : i \in { j \in 1..Len(ns) :
                             ns[j].fundDirection = "incoming" /\ ns[j].type # "developer" } }
        outgoingIds == { ns[i].id : i \in { j \in 1..Len(ns) :
                             ns[j].fundDirection = "outgoing" /\ ns[j].type # "developer" } }
        unknownSources == { i \in 1..Len(ns) : ns[i].type = "unknown" /\ ns[i].amount > SOL }
        highFrequencyLinks == { i \in 1..Len(ls) : ls[i].frequency > 20 }
        exchangeNodes == { i \in 1..Len(ns) : ns[i].type = "exchange" }
    IN  If(incomingIds \cap outgoingIds # {}, "Circular funding detected")
        \o If(totalSent * 5 > totalReceived * 4 /\ totalSent >= 5 * SOL, "Potential wash trading")
        \o If(Cardinality(unknownSources) > 3, "Multiple unknown funding sources")
        \o If(Cardinality(highFrequencyLinks) > 2, "High frequency transactions")
        \o If(exchangeNodes = {} /\ totalReceived > 10 * SOL, "No exchange funding detected")

detectSuspiciousPatterns(ns, ls, totalReceived, totalSent) ==
    LET incomingIds == { ns[i].id : i \in { j \in 1..Len(ns) :
                             ns[j].fundDirection = "incoming" /\ ns[j].type # "developer" } }
        outgoingIds == { ns[i].id : i \in { j \in 1..Len(ns) :
                             ns[j].fundDirection = "outgoing" /\ ns[j].type # "developer" } }
        unknownSources == { i \in 1..Len(ns) : ns[i].type = "unknown" /\ ns[i].amount > SOL }
        highFrequencyLinks == { i \in 1..Len(ls) : ls[i].frequency > 20 }
        exchangeNodes == { i \in 1..Len(ns) : ns[i].type = "exchange" }
    IN  If(incomingIds \cap outgoingIds # {}, "Circular funding detected")
        \o If(totalSent * 5 > totalReceived * 4 /\ totalSent > 5 * SOL, "Potential wash trading")
        \o If(Cardinality(unknownSources) > 3, "Multiple unknown funding sources")
        \o If(Cardinality(highFrequencyLinks) > 2, "High frequency transactions")
        \o If(exchangeNodes = {} /\ totalReceived > 10 * SOL, "No exchange funding detected")

calculateFundFlowRiskScoreNoFloor(ns, ls, totalReceived, totalSent, patterns) ==
    LET exchangeNodes == Cardinality({ i \in 1..Len(ns) : ns[i].type = "exchange" })
        unknownSources == Cardinality({ i \in 1..Len(ns) : ns[i].type = "unknown" })
        highRiskNodes == Cardinality({ i \in 1..Len(ns) : ns[i].riskLevel = "high" })
        whaleNodes == Cardinality({ i \in 1..Len(ns) : ns[i].type = "whale" })
        contractNodes == Cardinality({ i \in 1..Len(ns) : ns[i].type = "contract" })
        s == 30 + Len(patterns) * 15
             + (IF exchangeNodes = 0 /\ totalReceived > 10 * SOL THEN 20 ELSE 0)
             + unknownSources * 5
             + highRiskNodes * 10
             + (IF whaleNodes > 2 THEN 10 ELSE 0)
             - exchangeNodes * 8
             - (IF contractNodes > 0 /\ contractNodes < 5 THEN 5 ELSE 0)
    IN  Min(100, s)

calculateFundFlowRiskScore(ns, ls, totalReceived, totalSent, patterns) ==
    LET exchangeNodes == Cardinality({ i \in 1..Len(ns) : ns[i].type = "exchange" })
        unknownSources == Cardinality({ i \in 1..Len(ns) : ns[i].type = "unknown" })
        highRiskNodes == Cardinality({ i \in 1..Len(ns) : ns[i].riskLevel = "high" })
        whaleNodes == Cardinality({ i \in 1..Len(ns) : ns[i].type = "whale" })
        contractNodes == Cardinality({ i \in 1..Len(ns) : ns[i].type = "contract" })
        s == 30 + Len(patterns) * 15
             + (IF exchangeNodes = 0 /\ totalReceived > 10 * SOL THEN 20 ELSE 0)
             + unknownSources * 5
             + highRiskNodes * 10
             + (IF whaleNodes > 2 THEN 10 ELSE 0)
             - exchangeNodes * 8
             - (IF contractNodes > 0 /\ contractNodes < 5 THEN 5 ELSE 0)
    IN  Max(0, Min(100, s))

\* lines 460-477 of getSecondaryFundFlows: one flow merged into the flows array
MergeSecondary(flows, flow) ==
    LET i == MapIndex(flows, flow.address)
    IN  IF i # 0
        THEN [ flows EXCEPT ![i] = [ @ EXCEPT !.amount = @ + flow.amount,
                                              !.count = @ + 1,
                                              !.direction = IF @ # flow.direction
                                                            THEN "both" ELSE @ ] ]
        ELSE Append(flows, [ address |-> flow.address, amount |-> flow.amount, count |-> 1,
                             type |-> flow.type, direction |-> flow.direction ])

RECURSIVE MergeSecondaries(_, _)
MergeSecondaries(flows, new) ==
    IF new = << >> THEN flows
    ELSE MergeSecondaries(MergeSecondary(flows, Head(new)), Tail(new))

RECURSIVE SecondaryFold(_, _, _)
SecondaryFold(flows, txs, address) ==
    IF txs = << >> THEN flows
    ELSE SecondaryFold(MergeSecondaries(flows, analyzeFundFlow(Head(txs), address)),
                       Tail(txs), address)

RECURSIVE SelectSeq2(_, _)
SelectSeq2(s, minAmount) ==
    IF s = << >> THEN << >>
    ELSE IF Head(s).amount > minAmount
         THEN << Head(s) >> \o SelectSeq2(Tail(s), minAmount)
         ELSE SelectSeq2(Tail(s), minAmount)

\* getSecondaryFundFlows, txs being the transactions of the first three
\* signatures that getTransaction returned
getSecondaryFundFlows(txs, address) ==
    Prefix(SelectSeq2(SecondaryFold(<< >>, Prefix(txs, 3), address), SOL \div 10), 2)

HasNode(ns, id) == \E i \in 1..Len(ns) : ns[i].id = id

\* lines 196-220: the secondary flows of one major source added to the graph
RECURSIVE AddSecondary(_, _, _, _)
AddSecondary(g, flows, index, sourceId) ==
    IF flows = << >> THEN g
    ELSE LET flow == Head(flows)
             incoming == flow.direction = "incoming"
         IN  IF ~HasNode(g.nodes, flow.address) /\ index < 2
             THEN AddSecondary(
                    [ nodes |-> Append(g.nodes,
                          [ id |-> flow.address, group |-> 200 + index, value |-> flow.count,
                            label |-> LabelOr(flow.address, "Secondary"),
                            type |-> classifyFundSource(flow.address, flow.type, flow.amount),
                            amount |-> flow.amount, transactionCount |-> flow.count,
                            fundDirection |-> flow.direction,
                            riskLevel |-> assessAddressRisk(flow.address, flow.amount, flow.type) ]),
                      links |-> Append(g.links,
                          [ source |-> IF incoming THEN flow.address ELSE sourceId,
                            target |-> IF incoming THEN sourceId ELSE flow.address,
                            value |-> flow.count, amount |-> flow.amount, type |-> "funding",
                            frequency |-> flow.count,
                            direction |-> IF incoming THEN "to_developer" ELSE "from_developer" ]) ],
                    Tail(flows), index + 1, sourceId)
             ELSE AddSecondary(g, Tail(flows), index + 1, sourceId)

\* nodes.filter(n => n.type !== "developer" && n.amount > 1 * 1e9).slice(0, 3)
RECURSIVE MajorFrom(_)
MajorFrom(ns) ==
    IF ns = << >> THEN << >>
    ELSE IF Len(ns) = 1
    THEN IF ns[1].type # "developer" /\ ns[1].amount > SOL THEN << ns[1].id >> ELSE << >>
    ELSE LET mid == Len(ns) \div 2
         IN  MajorFrom(SubSeq(ns, 1, mid)) \o MajorFrom(SubSeq(ns, mid + 1, Len(ns)))

MajorSources(ns) == Prefix(MajorFrom(ns), 3)

ReturnAllNodes(ns) == ns
\* nodes.slice(0, 30)
ReturnedNodes(ns) == Prefix(ns, NodeCap)
\* links.slice(0, 50)
ReturnedLinks(ls) == Prefix(ls, LinkCap)

\* lines 239-259: the minimal structure of the catch block
MinimalFundFlow(developerAddress) ==
    [ status |-> 200,
      nodes |-> << DeveloperNode(developerAddress) >>,
      links |-> << >>,
      totalFundsReceived |-> 0, totalFundsSent |-> 0, fundingSources |-> 0,
      riskScore |-> 50,
      suspiciousPatterns |-> << "Unable to analyze fund flows" >> ]

(* Sample chain data of the developer d *)
MaxSigs == 2
BulkSize == 60

Sig(blockTime, tx) == [blockTime |-> blockTime, tx |-> tx]

\* one transaction in which BulkSize distinct accounts pay 2 SOL each to d
BulkTx(d) ==
    RpcTx(<< d >> \o [i \in 1..BulkSize |-> 100 + i],
          << 0 >> \o [i \in 1..BulkSize |-> 2 * SOL],
          << BulkSize * 2 * SOL >> \o [i \in 1..BulkSize |-> 0],
          << 931 >>)

SignatureSamples(d) ==
    { Sig(10, RpcTx(<< d, 10 >>, << 0, 2 * SOL >>, << 2 * SOL, 0 >>, << 931 >>)),
      Sig(20, RpcTx(<< d, 10, 920 >>, << 15 * SOL, 0, 0 >>, << 0, 5 * SOL, 10 * SOL >>, << 933 >>)),
      Sig(30, RpcTx(<< d, 11 >>, << 0, 110 * SOL >>, << 110 * SOL, 0 >>, << >>)),
      Sig(0,  RpcTx(<< 12, d, 13, 903 >>, << 500, 700, 0, 0 >>, << 0, 0, 5, SOL + 995 >>, << 932 >>)),
      Sig(40, RpcTx(<< 14, 15 >>, << SOL, 0 >>, << 0, SOL >>, << 931 >>)),
      Sig(50, BulkTx(d)) }

SignatureLists(d) == SeqsUpTo(SignatureSamples(d), MaxSigs)

\* sample transactions of a major source s
SecondaryTx1(s, d) ==
    RpcTx(<< s, 50, 51, d, 52 >>, << 0, SOL, SOL, SOL, SOL >>, << 4 * SOL, 0, 0, 0, 0 >>, << 931 >>)
SecondaryTx2(s, d) ==
    RpcTx(<< s, d, 50 >>, << SOL, 0, 0 >>, << 0, SOL \div 2, SOL \div 2 >>, << >>)

\* s trades 3 SOL to the exchange account 920
SecondaryTx3(s, d) ==
    RpcTx(<< s, 920 >>, << 3 * SOL, 0 >>, << 0, 3 * SOL >>, << 933 >>)

SecondaryHistories(s, d) ==
    { << >>, << SecondaryTx1(s, d) >>, << SecondaryTx2(s, d) >>,
      << SecondaryTx1(s, d), SecondaryTx2(s, d) >>, << SecondaryTx3(s, d) >> }

\* signatures.slice(0, 100)
FoldList(sigs) == Prefix(sigs, 100)

NextSigIndexBreakOnSkip(i, fetched, sigs) == IF fetched THEN i + 1 ELSE Len(FoldList(sigs))
\* the loop goes on with the next signature whether or not the fetch gave a transaction
NextSigIndex(i, fetched, sigs) == i + 1

\* POST lines 40-49 and analyzeFundFlows lines 63-82
FlowValidate ==
    /\ endpoint = "fund-flow-analysis"
    /\ pc = "start"
    /\ IF reqAddress = EmptyAddress
       THEN /\ response' = ErrorResponse(400, "Developer address is required")
            /\ pc' = "done"
            /\ nodes' = nodes
       ELSE /\ response' = response
            /\ pc' = "signatures"
            /\ nodes' = << DeveloperNode(reqAddress) >>
    /\ UNCHANGED << endpoint, reqAddress, reqDeployer, upstreamCalls >>
    /\ UNCHANGED scoreVars
    /\ UNCHANGED << signatures, sigIndex, skipped, fundSources, totalFundsReceived,
                    totalFundsSent, fundingSources, links, riskScore, suspiciousPatterns,
                    majorSources, srcIndex >>
    /\ UNCHANGED componentVars

\* line 85: getSignaturesForAddress gives the result array, [] when the
\* fetch fails or the reply has no result, or a result that is no array, on
\* which line 101 throws into the catch block of line 235
FlowFetchSignatures ==
    /\ endpoint = "fund-flow-analysis"
    /\ pc = "signatures"
    /\ upstreamCalls' = upstreamCalls + 1
    /\ \/ /\ IsValidAddress(reqAddress)
          /\ \E sigs \in SignatureLists(reqAddress) : signatures' = sigs
          /\ pc' = "fold"
          /\ response' = response
       \/ /\ signatures' = << >>
          /\ pc' = "fold"
          /\ response' = response
       \/ /\ IsValidAddress(reqAddress)
          /\ signatures' = << >>
          /\ pc' = "done"
          /\ response' = MinimalFundFlow(reqAddress)
    /\ UNCHANGED << endpoint, reqAddress, reqDeployer >>
    /\ UNCHANGED scoreVars
    /\ UNCHANGED << sigIndex, skipped, fundSources, totalFundsReceived, totalFundsSent,
                    fundingSources, nodes, links, riskScore, suspiciousPatterns,
                    majorSources, srcIndex >>
    /\ UNCHANGED componentVars

\* lines 101-137: one iteration of the loop; getTransaction gives the
\* transaction, or null when the fetch fails or the reply has no result
FlowFoldTx ==
    /\ endpoint = "fund-flow-analysis"
    /\ pc = "fold"
    /\ sigIndex < Len(FoldList(signatures))
    /\ upstreamCalls' = upstreamCalls + 1
    /\ \E fetched \in BOOLEAN :
          LET sig == FoldList(signatures)[sigIndex + 1]
              st == [ fundSources |-> fundSources,
                      totalFundsReceived |-> totalFundsReceived,
                      totalFundsSent |-> totalFundsSent ]
              st2 == IF fetched
                     THEN MergeFlows(st, analyzeFundFlow(sig.tx, reqAddress), sig.blockTime)
                     ELSE st
          IN  /\ fundSources' = st2.fundSources
              /\ totalFundsReceived' = st2.totalFundsReceived
              /\ totalFundsSent' = st2.totalFundsSent
              /\ skipped' = IF fetched THEN skipped ELSE skipped \cup { sigIndex + 1 }
              /\ sigIndex' = NextSigIndex(sigIndex, fetched, signatures)
    /\ UNCHANGED << endpoint, reqAddress, reqDeployer, response, pc >>
    /\ UNCHANGED scoreVars
    /\ UNCHANGED << signatures, fundingSources, nodes, links, riskScore, suspiciousPatterns,
                    majorSources, srcIndex >>
    /\ UNCHANGED componentVars

\* lines 139-191: the graph, the patterns, the risk score and the major sources
FlowBuildGraph ==
    /\ endpoint = "fund-flow-analysis"
    /\ pc = "fold"
    /\ sigIndex >= Len(FoldList(signatures))
    /\ LET g == BuildGraph(fundSources, reqAddress,
                           [ nodes |-> nodes, links |-> << >>, fundingSources |-> 0 ])
           ns == [ g.nodes EXCEPT ![1] = [ @ EXCEPT !.amount = totalFundsReceived + totalFundsSent,
                                                    !.transactionCount = Len(signatures),
                                                    !.value = g.fundingSources ] ]
           patterns == detectSuspiciousPatterns(ns, g.links, totalFundsReceived, totalFundsSent)
       IN  /\ nodes' = ns
           /\ links' = g.links
           /\ fundingSources' = g.fundingSources
           /\ suspiciousPatterns' = patterns
           /\ riskScore' = calculateFundFlowRiskScore(ns, g.links, totalFundsReceived,
                                                      totalFundsSent, patterns)
           /\ majorSources' = MajorSources(ns)
    /\ pc' = "secondary"
    /\ UNCHANGED << endpoint, reqAddress, reqDeployer, upstreamCalls, response >>
    /\ UNCHANGED scoreVars
    /\ UNCHANGED << signatures, sigIndex, skipped, fundSources, totalFundsReceived,
                    totalFundsSent, srcIndex >>
    /\ UNCHANGED componentVars

\* lines 193-224: one major source expanded
FlowSecondary ==
    /\ endpoint = "fund-flow-analysis"
    /\ pc = "secondary"
    /\ srcIndex < Len(majorSources)
    /\ \E txs \in SecondaryHistories(majorSources[srcIndex + 1], reqAddress) :
          LET sourceId == majorSources[srcIndex + 1]
              g == AddSecondary([ nodes |-> nodes, links |-> links ],
                                getSecondaryFundFlows(txs, sourceId), 0, sourceId)
          IN  /\ nodes' = g.nodes
              /\ links' = g.links
              /\ upstreamCalls' = upstreamCalls + 1 + Len(txs)
    /\ srcIndex' = srcIndex + 1
    /\ UNCHANGED << endpoint, reqAddress, reqDeployer, response, pc >>
    /\ UNCHANGED scoreVars
    /\ UNCHANGED << signatures, sigIndex, skipped, fundSources, totalFundsReceived,
                    totalFundsSent, fundingSources, riskScore, suspiciousPatterns,
                    majorSources >>
    /\ UNCHANGED componentVars

\* the same with the risk score computed again on what is returned
FlowReturnRescored ==
    /\ endpoint = "fund-flow-analysis"
    /\ pc = "secondary"
    /\ srcIndex >= Len(majorSources)
    /\ response' = [ status |-> 200,
                     nodes |-> ReturnedNodes(nodes),
                     links |-> ReturnedLinks(links),
                     totalFundsReceived |-> totalFundsReceived,
                     totalFundsSent |-> totalFundsSent,
                     fundingSources |-> fundingSources,
                     riskScore |-> calculateFundFlowRiskScore(
                                       ReturnedNodes(nodes), ReturnedLinks(links),
                                       totalFundsReceived, totalFundsSent, suspiciousPatterns),
                     suspiciousPatterns |-> Prefix(suspiciousPatterns, PatternCap) ]
    /\ pc' = "done"
    /\ UNCHANGED << endpoint, reqAddress, reqDeployer, upstreamCalls >>
    /\ UNCHANGED scoreVars
    /\ UNCHANGED flowVars
    /\ UNCHANGED componentVars

\* lines 226-234 and POST line 51
FlowReturn ==
    /\ endpoint = "fund-flow-analysis"
    /\ pc = "secondary"
    /\ srcIndex >= Len(majorSources)
    /\ response' = [ status |-> 200,
                     nodes |-> ReturnedNodes(nodes),
                     links |-> ReturnedLinks(links),
                     totalFundsReceived |-> totalFundsReceived,
                     totalFundsSent |-> totalFundsSent,
                     fundingSources |-> fundingSources,
                     riskScore |-> riskScore,
                     suspiciousPatterns |-> Prefix(suspiciousPatterns, PatternCap) ]
    /\ pc' = "done"
    /\ UNCHANGED << endpoint, reqAddress, reqDeployer, upstreamCalls >>
    /\ UNCHANGED scoreVars
    /\ UNCHANGED flowVars
    /\ UNCHANGED componentVars

NextFlow ==
    \/ FlowValidate
    \/ FlowFetchSignatures
    \/ FlowFoldTx
    \/ FlowBuildGraph
    \/ FlowSecondary
    \/ FlowReturn

InitFlow ==
    /\ endpoint = "fund-flow-analysis"
    /\ reqDeployer = EmptyAddress
    /\ InitRequest

SpecFlow == InitFlow /\ [][NextFlow]_vars

-----------------------------------------------------------------------------
(* The fund-sources, developer-network and deployer-network routes:          *)
(* src/unnamed/part_001                                                     *)

MaxGraphTxs == 2

Label(text, n) == [text |-> text, n |-> n]

\* (await getAddressLabel(address)) || fallback, lines 289-300 and 707-718
KnownLabelOr(address, fallback) ==
    CASE address = 920 -> Label("Binance", 0)
      [] address = 911 -> Label("FTX", 0)
      [] address = 921 -> Label("Coinbase", 0)
      [] address = 934 -> Label("Wrapped SOL", 0)
      [] address = 931 -> Label("System Program", 0)
      [] OTHER -> fallback

\* classifyAddress, lines 265-287 and 683-705; they differ in the default only
classifyAddress(address, default) ==
    IF address \in Exchanges THEN "exchange"
    ELSE IF AddrLen(address) = 44 /\ Includes1111(address) THEN "contract"
    ELSE IF StartsWithSo1(address) THEN "contract"
    ELSE IF StartsWith11111(address) THEN "contract"
    ELSE default

NoFunding == [source |-> EmptyAddress, amount |-> 0]

\* analyzeFundingTransaction, lines 643-681
analyzeFundingTransaction(tx, targetAddress) ==
    LET targetIndex == FindIndex(tx.accountKeys, targetAddress)
        balanceChange == tx.postBalances[targetIndex] - tx.preBalances[targetIndex]
        S == { i \in 1..Len(tx.accountKeys) :
                 /\ i # targetIndex
                 /\ tx.preBalances[i] - tx.postBalances[i] > 0
                 /\ Abs((tx.preBalances[i] - tx.postBalances[i]) - balanceChange) < 1 }
    IN  IF targetIndex = 0 THEN NoFunding
        ELSE IF balanceChange > 0 /\ S # {}
        THEN [ source |-> tx.accountKeys[CHOOSE i \in S : \A j \in S : i <= j],
               amount |-> balanceChange ]
        ELSE NoFunding

\* analyzeConnectionTransaction, lines 226-263
analyzeConnectionTransaction(tx, targetAddress) ==
    LET targetIndex == FindIndex(tx.accountKeys, targetAddress)
        balanceChange == Abs(tx.postBalances[targetIndex] - tx.preBalances[targetIndex])
        S == { i \in 1..Len(tx.accountKeys) :
                 i # targetIndex /\ Abs(tx.preBalances[i] - tx.postBalances[i]) > 0 }
    IN  IF targetIndex = 0 THEN NoFunding
        ELSE IF balanceChange > 0 /\ S # {}
        THEN [ source |-> tx.accountKeys[CHOOSE i \in S : \A j \in S : i <= j],
               amount |-> balanceChange ]
        ELSE NoFunding

\* the body of the loops of getDeployerFunding, getMintFunding and
\* getDeveloperConnections: one funding record merged into the sources
MergeSource(acc, info, default) ==
    LET i == MapIndex(acc.sources, info.source)
    IN  IF info.amount > 0
        THEN [ sources |->
                 IF i # 0
                 THEN [ acc.sources EXCEPT ![i] = [ @ EXCEPT !.amount = @ + info.amount,
                                                            !.transactionCount = @ + 1 ] ]
                 ELSE Append(acc.sources,
                             [ address |-> info.source, amount |-> info.amount,
                               transactionCount |-> 1,
                               type |-> classifyAddress(info.source, default),
                               label |-> KnownLabelOr(info.source, Label("", 0)) ]),
               total |-> acc.total + info.amount ]
        ELSE acc

RECURSIVE FundingFold(_, _, _)
FundingFold(acc, txs, targetAddress) ==
    IF txs = << >> THEN acc
    ELSE FundingFold(MergeSource(acc, analyzeFundingTransaction(Head(txs), targetAddress), "source"),
                     Tail(txs), targetAddress)

RECURSIVE ConnectionFold(_, _, _)
ConnectionFold(acc, txs, targetAddress) ==
    IF txs = << >> THEN acc
    ELSE ConnectionFold(MergeSource(acc, analyzeConnectionTransaction(Head(txs), targetAddress),
                                    "wallet"),
                        Tail(txs), targetAddress)

NoSources == [sources |-> << >>, total |-> 0]

Suffix(s, k) == SubSeq(s, Max(1, Len(s) - k + 1), Len(s))

\* getDeployerFunding, lines 488-544, txs being the transactions fetched;
\* the signatures reply is an array or not (slice of line 505 then throws
\* into the catch block of line 540)
getDeployerFunding(txs, isArray, deployerAddress) ==
    LET r == FundingFold(NoSources, Prefix(txs, 20), deployerAddress)
    IN  IF isArray
        THEN [ sources |-> Prefix(r.sources, 10), totalReceived |-> r.total,
               deploymentCost |-> SOL \div 100 ]
        ELSE [ sources |-> << >>, totalReceived |-> 0, deploymentCost |-> 0 ]

\* getMintFunding, lines 546-599
getMintFunding(txs, mintAddress) ==
    LET r == FundingFold(NoSources, Suffix(txs, 10), mintAddress)
    IN  [ sources |-> Prefix(r.sources, 5), totalReceived |-> r.total ]

\* getDeveloperConnections, lines 129-182
getDeveloperConnections(txs, developerAddress) ==
    LET r == ConnectionFold(NoSources, Prefix(txs, 20), developerAddress)
    IN  [ sources |-> Prefix(r.sources, 10), totalActivity |-> r.total ]

GraphNode(id, group, value, label, type, amount) ==
    [id |-> id, group |-> group, value |-> value, label |-> label, type |-> type,
     amount |-> amount]

GraphLink(source, target, value, amount, type) ==
    [source |-> source, target |-> target, value |-> value, amount |-> amount, type |-> type]

LabelOrIndexed(label, text, n) == IF label.text # "" THEN label ELSE Label(text, n)

\* lines 385-405 and 72-92: sources.forEach, a node and a funding link each
RECURSIVE AddFundingSources(_, _, _, _, _, _)
AddFundingSources(g, sources, index, target, groupBase, text) ==
    IF sources = << >> THEN g
    ELSE LET source == Head(sources)
         IN  AddFundingSources(
               [ nodes |-> Append(g.nodes,
                     GraphNode(source.address, groupBase + index, source.transactionCount,
                               LabelOrIndexed(source.label, text, index + 1), source.type,
                               source.amount)),
                 links |-> Append(g.links,
                     GraphLink(source.address, target, source.transactionCount, source.amount,
                               "funding")),
                 totalFunding |-> g.totalFunding + source.amount,
                 fundingSources |-> g.fundingSources + 1 ],
               Tail(sources), index + 1, target, groupBase, text)

\* lines 427-451: mintFunding.sources.forEach, the node only when none has its id
RECURSIVE AddMintSources(_, _, _, _)
AddMintSources(g, sources, index, mintAddress) ==
    IF sources = << >> THEN g
    ELSE LET source == Head(sources)
         IN  AddMintSources(
               [ nodes |-> IF HasNode(g.nodes, source.address) THEN g.nodes
                           ELSE Append(g.nodes,
                                  GraphNode(source.address, 100 + index, source.transactionCount,
                                            LabelOrIndexed(source.label, "Direct Source", index + 1),
                                            source.type, source.amount)),
                 links |-> Append(g.links,
                     GraphLink(source.address, mintAddress, source.transactionCount,
                               source.amount, "creation")),
                 totalFunding |-> g.totalFunding + source.amount,
                 fundingSources |-> g.fundingSources + 1 ],
               Tail(sources), index + 1, mintAddress)

\* nodes.find(n => n.id === id), then the update of its amount and value
UpdateFirst(ns, id, amount, value) ==
    LET S == { i \in 1..Len(ns) : ns[i].id = id }
    IN  IF S = {} THEN ns
        ELSE LET k == CHOOSE i \in S : \A j \in S : i <= j
             IN  [ ns EXCEPT ![k] = [ @ EXCEPT !.amount = amount, !.value = value ] ]

\* analyzeFundSources, lines 354-465
analyzeFundSources(mintAddress, deployerAddress, deployerTxs, isArray, mintTxs) ==
    LET g0 == [ nodes |-> << GraphNode(mintAddress, 0, 0, Label("Mint Address", 0), "mint", 0) >>,
                links |-> << >>, totalFunding |-> 0, fundingSources |-> 0 ]
        deployerFunding == getDeployerFunding(deployerTxs, isArray, deployerAddress)
        g1 == [ g0 EXCEPT !.nodes = Append(@, GraphNode(deployerAddress, 1, 0,
                                                         Label("Deployer", 0), "deployer", 0)) ]
        g2 == AddFundingSources(g1, deployerFunding.sources, 0, deployerAddress, 2, "Source")
        g3 == [ g2 EXCEPT !.links = Append(@, GraphLink(deployerAddress, mintAddress, 1,
                                                        deployerFunding.deploymentCost,
                                                        "deployment")),
                          !.nodes = UpdateFirst(@, deployerAddress, deployerFunding.totalReceived,
                                                Len(deployerFunding.sources)) ]
        g4 == IF deployerAddress # EmptyAddress THEN g3 ELSE g0
        mintFunding == getMintFunding(mintTxs, mintAddress)
        g5 == AddMintSources(g4, mintFunding.sources, 0, mintAddress)
    IN  [ status |-> 200,
          nodes |-> UpdateFirst(g5.nodes, mintAddress, mintFunding.totalReceived,
                                Len(mintFunding.sources)),
          links |-> g5.links,
          totalFunding |-> g5.totalFunding,
          fundingSources |-> g5.fundingSources ]

\* analyzeDeveloperNetwork, lines 52-106
analyzeDeveloperNetwork(developerAddress, txs) ==
    LET g0 == [ nodes |-> << GraphNode(developerAddress, 0, 0, Label("Developer", 0),
                                       "developer", 0) >>,
                links |-> << >>, totalFunding |-> 0, fundingSources |-> 0 ]
        developerConnections == getDeveloperConnections(txs, developerAddress)
        g1 == AddFundingSources(g0, developerConnections.sources, 0, developerAddress, 1,
                                "Connection")
    IN  [ status |-> 200,
          nodes |-> UpdateFirst(g1.nodes, developerAddress, developerConnections.totalActivity,
                                Len(developerConnections.sources)),
          links |-> g1.links,
          totalFunding |-> g1.totalFunding,
          fundingSources |-> g1.fundingSources ]

\* an account of a parsed transaction message
Account(pubkey, signer, writable) == [pubkey |-> pubkey, signer |-> signer, writable |-> writable]

\* an entry of the getTransactions result; line 863 skips the entries
\* without a message
NetTx(accounts) == [hasMessage |-> TRUE, accountKeys |-> accounts]
NullTx == [hasMessage |-> FALSE, accountKeys |-> << >>]

NetLink(source, target, value) == [source |-> source, target |-> target, value |-> value]

\* links.has(linkId) / links.get(linkId), 0 when absent
LinkIndex(ls, source, target) ==
    LET S == { i \in 1..Len(ls) : ls[i].source = source /\ ls[i].target = target }
    IN  IF S = {} THEN 0 ELSE CHOOSE i \in S : TRUE

\* lines 869-894: accounts.forEach, a node and a link to the deployer for
\* every address seen for the first time
RECURSIVE AddAccounts(_, _, _)
AddAccounts(g, accounts, deployerAddress) ==
    IF accounts = << >> THEN g
    ELSE LET account == Head(accounts)
             address == account.pubkey
             isProgram == account.signer = FALSE /\ account.writable = FALSE
         IN  IF address = deployerAddress \/ HasNode(g.nodes, address)
             THEN AddAccounts(g, Tail(accounts), deployerAddress)
             ELSE AddAccounts(
                    [ nodes |-> Append(g.nodes,
                          [ id |-> address, group |-> IF isProgram THEN 3 ELSE 2,
                            value |-> IF isProgram THEN 5 ELSE 3, label |-> "" ]),
                      links |-> IF LinkIndex(g.links, deployerAddress, address) = 0
                                THEN Append(g.links, NetLink(deployerAddress, address, 1))
                                ELSE g.links ],
                    Tail(accounts), deployerAddress)

\* lines 902-916: the inner loop over j from the index given
RECURSIVE LinkFrom(_, _, _, _)
LinkFrom(ls, accounts, j, deployerAddress) ==
    IF j > Len(accounts) THEN ls
    ELSE LET target == accounts[j].pubkey
             k == LinkIndex(ls, deployerAddress, target)
         IN  LinkFrom(IF target = deployerAddress THEN ls
                      ELSE IF k = 0 THEN Append(ls, NetLink(deployerAddress, target, 1))
                      ELSE [ ls EXCEPT ![k] = [ @ EXCEPT !.value = @ + 1 ] ],
                      accounts, j + 1, deployerAddress)

\* lines 897-918: the outer loop over i
RECURSIVE LinkAccounts(_, _, _, _)
LinkAccounts(ls, accounts, i, deployerAddress) ==
    IF i > Len(accounts) THEN ls
    ELSE LinkAccounts(IF accounts[i].pubkey = deployerAddress
                      THEN LinkFrom(ls, accounts, i + 1, deployerAddress)
                      ELSE ls,
                      accounts, i + 1, deployerAddress)

RECURSIVE NetworkFold(_, _, _)
NetworkFold(g, txs, deployerAddress) ==
    IF txs = << >> THEN g
    ELSE LET tx == Head(txs)
             g1 == AddAccounts(g, tx.accountKeys, deployerAddress)
         IN  NetworkFold(IF tx.hasMessage
                         THEN [ g1 EXCEPT !.links = LinkAccounts(@, tx.accountKeys, 1,
                                                                 deployerAddress) ]
                         ELSE g,
                         Tail(txs), deployerAddress)

\* buildNetworkGraph, lines 846-924
buildNetworkGraph(deployerAddress, txs) ==
    LET g == NetworkFold([ nodes |-> << [ id |-> deployerAddress, group |-> 1, value |-> 10,
                                          label |-> "Deployer" ] >>,
                           links |-> << >> ],
                         txs, deployerAddress)
    IN  [ status |-> 200, nodes |-> g.nodes, links |-> g.links ]

(* Sample replies of the upstream: transfers into and out of the target *)
FundingTx(source, target, amount) ==
    RpcTx(<< source, target >>, << 10 * SOL, 0 >>, << 10 * SOL - amount, amount >>, << 931 >>)

FundingSamples(target, other) ==
    { FundingTx(20, target, 3 * SOL), FundingTx(920, target, SOL),
      FundingTx(target, 21, 2 * SOL) }
    \cup (IF IsValidAddress(other) /\ other # target
          THEN { FundingTx(other, target, 2 * SOL) } ELSE {})

FundingHistories(target, other) ==
    IF IsValidAddress(target) THEN SeqsUpTo(FundingSamples(target, other), MaxGraphTxs)
    ELSE { << >> }

NetworkSamples(deployerAddress) ==
    { NetTx(<< Account(deployerAddress, TRUE, TRUE), Account(30, FALSE, TRUE),
               Account(931, FALSE, FALSE) >>),
      NetTx(<< Account(31, TRUE, TRUE), Account(deployerAddress, FALSE, TRUE),
               Account(30, FALSE, TRUE) >>),
      NullTx }

NetworkHistories(deployerAddress) ==
    IF IsValidAddress(deployerAddress) THEN SeqsUpTo(NetworkSamples(deployerAddress), MaxGraphTxs)
    ELSE { << >> }

Deployers == { EmptyAddress, 1, 2 }

GraphUnchanged ==
    /\ UNCHANGED << endpoint, reqAddress, reqDeployer >>
    /\ UNCHANGED scoreVars
    /\ UNCHANGED flowVars
    /\ UNCHANGED componentVars

\* POST of fund-sources, lines 331-337
SourcesValidate ==
    /\ endpoint = "fund-sources"
    /\ pc = "start"
    /\ IF reqAddress = EmptyAddress
       THEN /\ response' = ErrorResponse(400, "Mint address is required")
            /\ pc' = "done"
       ELSE /\ response' = response
            /\ pc' = "analyze"
    /\ upstreamCalls' = upstreamCalls
    /\ GraphUnchanged

\* POST of fund-sources, lines 341-343; each of getDeployerFunding and
\* getMintFunding asks for the signatures and then for every transaction
SourcesAnalyze ==
    /\ endpoint = "fund-sources"
    /\ pc = "analyze"
    /\ \E deployerTxs \in FundingHistories(reqDeployer, reqAddress),
          mintTxs \in FundingHistories(reqAddress, reqDeployer),
          isArray \in BOOLEAN :
          /\ (~isArray => deployerTxs = << >>)
          /\ response' = analyzeFundSources(reqAddress, reqDeployer, deployerTxs, isArray,
                                            mintTxs)
          /\ upstreamCalls' = upstreamCalls + 1 + Len(mintTxs)
                              + (IF reqDeployer # EmptyAddress THEN 1 + Len(deployerTxs) ELSE 0)
    /\ pc' = "done"
    /\ GraphUnchanged

\* POST of developer-network, lines 29-35
NetworkValidate ==
    /\ endpoint = "developer-network"
    /\ pc = "start"
    /\ IF reqAddress = EmptyAddress
       THEN /\ response' = ErrorResponse(400, "Developer address is required")
            /\ pc' = "done"
       ELSE /\ response' = response
            /\ pc' = "analyze"
    /\ upstreamCalls' = upstreamCalls
    /\ GraphUnchanged

\* POST of developer-network, lines 40-42
NetworkAnalyze ==
    /\ endpoint = "developer-network"
    /\ pc = "analyze"
    /\ \E txs \in FundingHistories(reqAddress, EmptyAddress) :
          /\ response' = analyzeDeveloperNetwork(reqAddress, txs)
          /\ upstreamCalls' = upstreamCalls + 1 + Len(txs)
    /\ pc' = "done"
    /\ GraphUnchanged

\* POST of deployer-network, lines 743-749
DeployerValidate ==
    /\ endpoint = "deployer-network"
    /\ pc = "start"
    /\ IF reqAddress = EmptyAddress
       THEN /\ response' = ErrorResponse(400, "Address is required")
            /\ pc' = "done"
       ELSE /\ response' = response
            /\ pc' = "analyze"
    /\ upstreamCalls' = upstreamCalls
    /\ GraphUnchanged

\* POST of deployer-network, lines 752-760, with getDeployerNetwork of lines
\* 764-777: getTransactions gives the array of the reply, [] when a fetch
\* fails, or a result that is no array of transactions, on which
\* buildNetworkGraph throws; getDeployerNetwork throws it again and POST
\* answers 500
DeployerAnalyze ==
    /\ endpoint = "deployer-network"
    /\ pc = "analyze"
    /\ \/ \E txs \in NetworkHistories(reqAddress) :
             /\ response' = buildNetworkGraph(reqAddress, txs)
             /\ upstreamCalls' = upstreamCalls + (IF txs = << >> THEN 1 ELSE 2)
       \/ /\ IsValidAddress(reqAddress)
          /\ response' = ErrorResponse(500, "transactions.forEach is not a function")
          /\ upstreamCalls' = upstreamCalls + 2
    /\ pc' = "done"
    /\ GraphUnchanged

-----------------------------------------------------------------------------
(* The check-ca route: src/app/api/check-ca/route.ts *)

\* POST, lines 20-31
CheckValidate ==
    /\ endpoint = "check-ca"
    /\ pc = "start"
    /\ IF reqAddress = EmptyAddress
       THEN /\ response' = ErrorResponse(400, "Contract address is required")
            /\ pc' = "done"
       ELSE IF ~IsValidAddress(reqAddress)
       THEN /\ response' = ErrorResponse(400, "Invalid contract address format")
            /\ pc' = "done"
       ELSE /\ response' = response
            /\ pc' = "analyze"
    /\ upstreamCalls' = upstreamCalls
    /\ GraphUnchanged

\* POST, lines 36-46, with getTokenInfo of lines 54-80: getMintInfo throws
\* when the fetch fails or finds no mint, getTokenMetadata never throws
CheckAnalyze ==
    /\ endpoint = "check-ca"
    /\ pc = "analyze"
    /\ \/ /\ response' = [status |-> 200, mintAddress |-> reqAddress]
          /\ upstreamCalls' = upstreamCalls + 2
       \/ /\ response' = ErrorResponse(500, "Failed to fetch contract info")
          /\ upstreamCalls' = upstreamCalls + 1
    /\ pc' = "done"
    /\ GraphUnchanged

-----------------------------------------------------------------------------
(* All routes: one request to one of the endpoints *)

NextGraph ==
    \/ SourcesValidate
    \/ SourcesAnalyze
    \/ NetworkValidate
    \/ NetworkAnalyze
    \/ DeployerValidate
    \/ DeployerAnalyze
    \/ CheckValidate
    \/ CheckAnalyze

Init ==
    /\ endpoint \in Endpoints
    /\ reqDeployer \in (IF endpoint = "fund-sources" THEN Deployers ELSE { EmptyAddress })
    /\ InitRequest

Next ==
    \/ NextScore
    \/ NextFlow
    \/ NextGraph

Spec == Init /\ [][Next]_vars

(* The scoring route under a fair scheduler: the handler's own steps run     *)
(* whenever they can, and each provider fetch is taken to settle; the await  *)
(* of generateText, lines 309-351 of part_000, has no timeout and no abort   *)
(* signal, so no step of the handler forces it to settle                     *)
FairScore ==
    /\ InitScore
    /\ [][NextScore]_vars
    /\ WF_vars(ScoreValidate)
    /\ WF_vars(ScoreFetchTransactions)
    /\ WF_vars(ScoreFetchBalances)
    /\ WF_vars(ScoreFetchAccountInfo)

-----------------------------------------------------------------------------
(* The scoring pipeline applied to transaction lists: analyzeWalletData,     *)
(* calculateReputabilityScore, the risk level and generateRecommendations,   *)
(* lines 74-86 of part_000, each call reading the clock (line 103)           *)

MaxDivTxs == 6
MaxDivCps == 4

\* n transactions of wallet w with c distinct counterparties, all of them in
\* the transfers of the first transaction
DiversityHistory(w, n, c) ==
    [ i \in 1..n |->
        [ timestamp |-> 95,
          nativeTransfers |-> IF i = 1 THEN [ k \in 1..c |-> Transfer(10 + k, w, SOL) ]
                              ELSE << >>,
          tokenTransfers |-> << >>,
          instructions |-> << >> ] ]

ListInputs(w) == Histories(w) \cup { DiversityHistory(w, n, 0) : n \in 1..MaxDivTxs }

InitList ==
    /\ endpoint = "list"
    /\ pc = "list"
    /\ reqAddress = 1
    /\ reqDeployer = EmptyAddress
    /\ upstreamCalls = 0
    /\ response = NoResponse
    /\ now = 0
    /\ transactions \in ListInputs(1)
    /\ tokenBalances \in BalanceSamples
    /\ accountInfo = "null"
    /\ fetchFailed = {}
    /\ analysis = NoAnalysis
    /\ score = -1
    /\ factors = << >>
    /\ riskLevel = "none"
    /\ explanation = NoExplanation
    /\ recommendations = << >>
    /\ FlowIdle
    /\ ComponentIdle

\* lines 74-86 on the list txs at the time t
ScorePipeline(txs, t, next) ==
    /\ now' = t
    /\ transactions' = txs
    /\ analysis' = analyzeWalletData(txs, tokenBalances, accountInfo, reqAddress, t)
    /\ LET r == calculateReputabilityScore(analysis')
       IN  /\ score' = r.score
           /\ factors' = r.factors
           /\ riskLevel' = RiskLevel(r.score)
           /\ recommendations' = generateRecommendations(analysis', r.score)
    /\ pc' = next
    /\ UNCHANGED << endpoint, reqAddress, reqDeployer, upstreamCalls, tokenBalances,
                    accountInfo, fetchFailed, explanation, response >>
    /\ UNCHANGED flowVars
    /\ UNCHANGED componentVars

\* the list is scored
ScoreList ==
    /\ endpoint = "list"
    /\ pc = "list"
    /\ \E t \in Times : ScorePipeline(transactions, t, "scored")

\* the same list is scored again, at that moment or later
ScoreListAgain ==
    /\ endpoint = "list"
    /\ pc = "scored"
    /\ \E t \in Times : t >= now /\ ScorePipeline(transactions, t, "rescored")

\* the list with one counterparty more and as many transactions is scored
ScoreMoreCounterparties ==
    /\ endpoint = "list"
    /\ pc = "scored"
    /\ \E n \in 1..MaxDivTxs, c \in 0..(MaxDivCps - 1) :
          /\ transactions = DiversityHistory(reqAddress, n, c)
          /\ ScorePipeline(DiversityHistory(reqAddress, n, c + 1), now, "scored")

NextList ==
    \/ ScoreList
    \/ ScoreListAgain
    \/ ScoreMoreCounterparties

SpecList == InitList /\ [][NextList]_vars

-----------------------------------------------------------------------------
(* detectSuspiciousPatterns and calculateFundFlowRiskScore applied to node   *)
(* and link lists of the declared types, lines 6-26 and 490-579 of the       *)
(* fund-flow-analysis route                                                 *)

PatternNode(id, type, direction, amount, risk) ==
    [ id |-> id, group |-> 1, value |-> 1, label |-> "", type |-> type, amount |-> amount,
      transactionCount |-> 1, fundDirection |-> direction, riskLevel |-> risk ]

PatternLink(source, frequency) ==
    [ source |-> source, target |-> 1, value |-> frequency, amount |-> SOL, type |-> "funding",
      frequency |-> frequency, direction |-> "to_developer" ]

UnknownCounts == { 0, 3, 4 }
UnknownAmounts == { SOL, 2 * SOL }
ExchangeCounts == { 0, 4 }
WhaleCounts == { 2, 3 }
ContractCounts == { 0, 1, 5 }
HighFrequencyCounts == { 2, 3 }
Overlaps == { "none", "pair", "developer", "both" }
ReceivedSamples == { 0, 10 * SOL, 11 * SOL }
SentSamples == { 5 * SOL, 8 * SOL, 9 * SOL }

\* the nodes of one address seen in both directions: an incoming and an
\* outgoing node of the same id, the same pair with the type 'developer', or
\* one node of direction 'both'
OverlapNodes(o) ==
    CASE o = "pair" -> << PatternNode(50, "fund_source", "incoming", SOL, "low"),
                          PatternNode(50, "fund_source", "outgoing", SOL, "low") >>
      [] o = "developer" -> << PatternNode(50, "developer", "incoming", SOL, "low"),
                               PatternNode(50, "developer", "outgoing", SOL, "low") >>
      [] o = "both" -> << PatternNode(50, "fund_source", "both", SOL, "low"),
                          PatternNode(51, "fund_source", "incoming", SOL, "low"),
                          PatternNode(52, "fund_source", "outgoing", SOL, "low") >>
      [] OTHER -> << >>

PatternNodes(u, ua, e, w, c, o) ==
    << DeveloperNode(1) >>
    \o [ i \in 1..u |-> PatternNode(100 + i, "unknown", "incoming", ua, "high") ]
    \o [ i \in 1..e |-> PatternNode(200 + i, "exchange", "incoming", SOL, "low") ]
    \o [ i \in 1..w |-> PatternNode(300 + i, "whale", "incoming", 11 * SOL, "medium") ]
    \o [ i \in 1..c |-> PatternNode(400 + i, "contract", "outgoing", SOL, "low") ]
    \o OverlapNodes(o)

PatternLinks(h) == [ i \in 1..h |-> PatternLink(100 + i, 21) ] \o << PatternLink(99, 20) >>

InitDetect ==
    /\ endpoint = "detect"
    /\ pc = "detect"
    /\ reqAddress = 1
    /\ reqDeployer = EmptyAddress
    /\ upstreamCalls = 0
    /\ response = NoResponse
    /\ ScoreIdle
    /\ signatures = << >>
    /\ sigIndex = 0
    /\ skipped = {}
    /\ fundSources = << >>
    /\ totalFundsReceived \in ReceivedSamples
    /\ totalFundsSent \in SentSamples
    /\ fundingSources = 0
    /\ nodes \in { PatternNodes(u, ua, e, w, c, o) :
                     u \in UnknownCounts, ua \in UnknownAmounts, e \in ExchangeCounts,
                     w \in WhaleCounts, c \in ContractCounts, o \in Overlaps }
    /\ links \in { PatternLinks(h) : h \in HighFrequencyCounts }
    /\ riskScore = 0
    /\ suspiciousPatterns = << >>
    /\ majorSources = << >>
    /\ srcIndex = 0
    /\ ComponentIdle

\* lines 183-186: the patterns and the risk score of the lists
DetectOn(ns) ==
    /\ nodes' = ns
    /\ LET patterns == detectSuspiciousPatterns(ns, links, totalFundsReceived, totalFundsSent)
       IN  /\ suspiciousPatterns' = patterns
           /\ riskScore' = calculateFundFlowRiskScore(ns, links, totalFundsReceived,
                                                      totalFundsSent, patterns)
    /\ UNCHANGED << endpoint, reqAddress, reqDeployer, upstreamCalls, response >>
    /\ UNCHANGED scoreVars
    /\ UNCHANGED << signatures, sigIndex, skipped, fundSources, totalFundsReceived,
                    totalFundsSent, fundingSources, links, majorSources, srcIndex >>
    /\ UNCHANGED componentVars

Detect ==
    /\ endpoint = "detect"
    /\ pc = "detect"
    /\ pc' = "detected"
    /\ DetectOn(nodes)

\* the outgoing nodes whose address has an incoming node too are taken out and
\* the functions applied again
DetectWithoutOverlap ==
    /\ endpoint = "detect"
    /\ pc = "detected"
    /\ pc' = "removed"
    /\ DetectOn(SelectSeq(nodes, LAMBDA n :
           ~(n.fundDirection = "outgoing"
             /\ \E i \in 1..Len(nodes) : nodes[i].id = n.id
                                         /\ nodes[i].fundDirection = "incoming")))

NextDetect ==
    \/ Detect
    \/ DetectWithoutOverlap

SpecDetect == InitDetect /\ [][NextDetect]_vars

-----------------------------------------------------------------------------
(* The folds of analyzeFundFlows (lines 101-137) and of                      *)
(* getSecondaryFundFlows (lines 454-481) over short lists of transactions    *)
(* that share counterparties, one transaction a step                        *)

MaxFoldTxs == 3

\* account 10 pays the developer, the developer stakes to account 10,
\* account 11 pays a large amount, account 10 pays a large amount, account 10
\* pays 60 SOL in a transaction without instructions
FoldSamples(d) ==
    { Sig(10, RpcTx(<< 10, d >>, << 2 * SOL, 0 >>, << 0, 2 * SOL >>, << 931 >>)),
      Sig(20, RpcTx(<< d, 10 >>, << 3 * SOL, 0 >>, << 0, 3 * SOL >>, << 930 >>)),
      Sig(30, RpcTx(<< 11, d >>, << 20 * SOL, 0 >>, << 0, 20 * SOL >>, << 931 >>)),
      Sig(5,  RpcTx(<< d, 10 >>, << 0, 12 * SOL >>, << 12 * SOL, 0 >>, << 931 >>)),
      Sig(40, RpcTx(<< 10, d >>, << 60 * SOL, 0 >>, << 0, 60 * SOL >>, << >>)) }

FoldLists(d) == SeqsUpTo(FoldSamples(d), MaxFoldTxs)

\* signatures.slice(0, 3) of getSecondaryFundFlows
SecondaryList(sigs) == Prefix(sigs, 3)

InitFold ==
    /\ endpoint = "fund-flow-analysis"
    /\ pc \in { "fold", "secondaryFold" }
    /\ reqAddress = 1
    /\ reqDeployer = EmptyAddress
    /\ upstreamCalls = 1
    /\ response = NoResponse
    /\ ScoreIdle
    /\ signatures \in FoldLists(reqAddress)
    /\ sigIndex = 0
    /\ skipped = {}
    /\ fundSources = << >>
    /\ totalFundsReceived = 0
    /\ totalFundsSent = 0
    /\ fundingSources = 0
    /\ nodes = << DeveloperNode(reqAddress) >>
    /\ links = << >>
    /\ riskScore = 0
    /\ suspiciousPatterns = << >>
    /\ majorSources = << >>
    /\ srcIndex = 0
    /\ ComponentIdle

\* lines 454-481: one iteration of the loop of getSecondaryFundFlows for the
\* address reqAddress, fundSources holding its flows array
SecondaryFoldTx ==
    /\ endpoint = "fund-flow-analysis"
    /\ pc = "secondaryFold"
    /\ sigIndex < Len(SecondaryList(signatures))
    /\ upstreamCalls' = upstreamCalls + 1
    /\ \E fetched \in BOOLEAN :
          LET sig == SecondaryList(signatures)[sigIndex + 1]
          IN  /\ fundSources' = IF fetched
                                THEN MergeSecondaries(fundSources,
                                                      analyzeFundFlow(sig.tx, reqAddress))
                                ELSE fundSources
              /\ skipped' = IF fetched THEN skipped ELSE skipped \cup { sigIndex + 1 }
    /\ sigIndex' = sigIndex + 1
    /\ UNCHANGED << endpoint, reqAddress, reqDeployer, response, pc >>
    /\ UNCHANGED scoreVars
    /\ UNCHANGED << signatures, totalFundsReceived, totalFundsSent, fundingSources, nodes,
                    links, riskScore, suspiciousPatterns, majorSources, srcIndex >>
    /\ UNCHANGED componentVars

\* line 483: the flows above 0.1 SOL, the first two of them
SecondaryFoldReturn ==
    /\ endpoint = "fund-flow-analysis"
    /\ pc = "secondaryFold"
    /\ sigIndex >= Len(SecondaryList(signatures))
    /\ fundSources' = Prefix(SelectSeq2(fundSources, SOL \div 10), 2)
    /\ pc' = "secondaryDone"
    /\ UNCHANGED << endpoint, reqAddress, reqDeployer, response, upstreamCalls >>
    /\ UNCHANGED scoreVars
    /\ UNCHANGED << signatures, sigIndex, skipped, totalFundsReceived, totalFundsSent,
                    fundingSources, nodes, links, riskScore, suspiciousPatterns,
                    majorSources, srcIndex >>
    /\ UNCHANGED componentVars

NextFold ==
    \/ FlowFoldTx
    \/ FlowBuildGraph
    \/ SecondaryFoldTx
    \/ SecondaryFoldReturn

SpecFold == InitFold /\ [][NextFold]_vars

-----------------------------------------------------------------------------
(* analyzeFundFlow (lines 305-352) applied to single transactions of a few  *)
(* accounts whose balances change by amounts around the 10,000 lamport      *)
(* threshold                                                                 *)

MaxAccounts == 3

AnalyzeAddresses == { 1, 10, 11, 12 }

\* balance changes in units of 1000 lamports
AnalyzeDeltas == { 0 - SOL, 0 - 11, 0, 10, 11, 2 * SOL }

\* the account lists of 2..MaxAccounts distinct accounts
AnalyzeKeys ==
    { keys \in UNION { [ 1..n -> AnalyzeAddresses ] : n \in 2..MaxAccounts } :
          \A i, j \in 1..Len(keys) : i # j => keys[i] # keys[j] }

\* a transaction in which the balance of keys[i] changes by deltas[i]
DeltaTx(keys, deltas) ==
    RpcTx(keys,
          [ i \in 1..Len(keys) |-> IF deltas[i] < 0 THEN 0 - deltas[i] ELSE 0 ],
          [ i \in 1..Len(keys) |-> IF deltas[i] < 0 THEN 0 ELSE deltas[i] ],
          << 931 >>)

InitAnalyze ==
    /\ endpoint = "fund-flow-analysis"
    /\ pc = "analyze"
    /\ reqAddress = 1
    /\ reqDeployer = EmptyAddress
    /\ upstreamCalls = 0
    /\ response = NoResponse
    /\ ScoreIdle
    /\ \E keys \in AnalyzeKeys :
          \E deltas \in [ 1..Len(keys) -> AnalyzeDeltas ] :
              signatures = << Sig(0, DeltaTx(keys, deltas)) >>
    /\ sigIndex = 0
    /\ skipped = {}
    /\ fundSources = << >>
    /\ totalFundsReceived = 0
    /\ totalFundsSent = 0
    /\ fundingSources = 0
    /\ nodes = << >>
    /\ links = << >>
    /\ riskScore = 0
    /\ suspiciousPatterns = << >>
    /\ majorSources = << >>
    /\ srcIndex = 0
    /\ ComponentIdle

\* lines 305-352: analyzeFundFlow(tx, reqAddress), fundSources holding the
\* flows it returns
AnalyzeTx ==
    /\ endpoint = "fund-flow-analysis"
    /\ pc = "analyze"
    /\ fundSources' = analyzeFundFlow(signatures[1].tx, reqAddress)
    /\ pc' = "analyzed"
    /\ UNCHANGED << endpoint, reqAddress, reqDeployer, response, upstreamCalls >>
    /\ UNCHANGED scoreVars
    /\ UNCHANGED << signatures, sigIndex, skipped, totalFundsReceived, totalFundsSent,
                    fundingSources, nodes, links, riskScore, suspiciousPatterns,
                    majorSources, srcIndex >>
    /\ UNCHANGED componentVars

NextAnalyze == AnalyzeTx

SpecAnalyze == InitAnalyze /\ [][NextAnalyze]_vars

-----------------------------------------------------------------------------
(* The effect of the TransactionGraph component: src/unnamed/part_004,      *)
(* lines 518-1247.  Every await of fetchTransactionGraph is a position of   *)
(* the closure of the effect; what runs between two awaits is one step.     *)
(* The graph built from a non-empty history (lines 648-849) is kept as its  *)
(* number of nodes only.  Durations are in milliseconds.                    *)

MaxEffects == 2
FrameRetries == 20
MaxRetries == 3
HistoryTimeoutMs == 15000
BackoffMs == 1000

Wallets == { EmptyAddress, -1, 1, 2 }

\* what getTransactionHistory does, and after how many milliseconds
HistoryResults == { "some", "empty", "error" }
HistoryDurations == { 200, 20000 }

\* the closure of one run of the effect: the variables of the source that are
\* still read (retries is the argument of the pending frame callback), the
\* duration of the attempt that settled last and the duration of the wait in
\* progress
Effect(w) ==
    [ wallet |-> w, cancelled |-> FALSE, pc |-> "effect", retries |-> 0,
      retryCount |-> 0, transactions |-> 0, attemptMs |-> 0, waitMs |-> 0 ]

\* the component state the closures write
Component ==
    [ loading |-> loading, errorMsg |-> errorMsg, fetchProgress |-> fetchProgress, svg |-> svg ]

Ended(eff) == [ eff EXCEPT !.pc = "ended", !.attemptMs = 0, !.retries = 0 ]

\* lines 863-870: the race of the fetch, which settles with result after ms,
\* and of the timer
fetchWithTimeout(result, ms, timeoutMs) ==
    IF ms < timeoutMs THEN [ result |-> result, ms |-> ms ]
    ELSE [ result |-> "timeout", ms |-> timeoutMs ]

\* lines 872-883: renderGraph draws nodes many nodes
renderGraph(c, eff, ref, nodeCount) ==
    IF eff.cancelled THEN c
    ELSE IF ref = "null"
    THEN [ c EXCEPT !.errorMsg = "Unable to render graph - SVG element not found" ]
    ELSE [ c EXCEPT !.svg = [ wallet |-> eff.wallet, nodes |-> nodeCount ] ]

\* the same without the test of cancelled
afterBalancesUnchecked(c, eff, ref) ==
    [ c |-> [ renderGraph([ c EXCEPT !.fetchProgress = "Building network graph..." ],
                          eff, ref, 1 + eff.transactions)
                EXCEPT !.loading = FALSE ],
      eff |-> Ended(eff) ]

\* lines 804-852: after the balances of the connected wallets
afterBalances(c, eff, ref) ==
    IF eff.cancelled THEN [ c |-> c, eff |-> Ended(eff) ]
    ELSE [ c |-> [ renderGraph([ c EXCEPT !.fetchProgress = "Building network graph..." ],
                               eff, ref, 1 + eff.transactions)
                     EXCEPT !.loading = FALSE ],
           eff |-> Ended(eff) ]

\* lines 634-799: after the balance of the main wallet, up to the await of
\* the balances of the connected wallets
afterBalance(c, eff, ref) ==
    IF eff.transactions = 0
    THEN IF ~eff.cancelled
         THEN [ c |-> [ renderGraph(c, eff, ref, 1) EXCEPT !.loading = FALSE ],
                eff |-> Ended(eff) ]
         ELSE [ c |-> c, eff |-> Ended(eff) ]
    ELSE [ c |-> [ c EXCEPT !.fetchProgress = "Fetching connected wallet balances..." ],
           eff |-> [ eff EXCEPT !.pc = "balances", !.attemptMs = 0 ] ]

\* lines 604-628: after the retry loop, up to the await of the balance
afterLoop(c, eff) ==
    IF eff.cancelled THEN [ c |-> c, eff |-> Ended(eff) ]
    ELSE [ c |-> [ c EXCEPT !.fetchProgress = "Fetching main wallet balance..." ],
           eff |-> [ eff EXCEPT !.pc = "balance" ] ]

\* the same with a wait of 1000 ms after every failed attempt
historySettledFlatWait(c, eff, result, ms) ==
    LET r == fetchWithTimeout(result, ms, HistoryTimeoutMs)
        tried == [ eff EXCEPT !.attemptMs = r.ms ]
        failed == [ tried EXCEPT !.retryCount = @ + 1 ]
    IN  IF r.result = "some" THEN afterLoop(c, [ tried EXCEPT !.transactions = 2 ])
        ELSE IF r.result = "empty" THEN afterLoop(c, [ tried EXCEPT !.transactions = 0 ])
        ELSE IF failed.retryCount >= MaxRetries
        THEN afterLoop(c, [ failed EXCEPT !.transactions = 0 ])
        ELSE [ c |-> c,
               eff |-> [ failed EXCEPT !.waitMs = BackoffMs, !.pc = "backoff" ] ]

\* lines 583-601: one attempt of the retry loop has settled
historySettled(c, eff, result, ms) ==
    LET r == fetchWithTimeout(result, ms, HistoryTimeoutMs)
        tried == [ eff EXCEPT !.attemptMs = r.ms ]
        failed == [ tried EXCEPT !.retryCount = @ + 1 ]
    IN  IF r.result = "some" THEN afterLoop(c, [ tried EXCEPT !.transactions = 2 ])
        ELSE IF r.result = "empty" THEN afterLoop(c, [ tried EXCEPT !.transactions = 0 ])
        ELSE IF failed.retryCount >= MaxRetries
        THEN afterLoop(c, [ failed EXCEPT !.transactions = 0 ])
        ELSE [ c |-> c,
               eff |-> [ failed EXCEPT !.waitMs = BackoffMs * failed.retryCount,
                                       !.pc = "backoff" ] ]

\* lines 559-584: fetchTransactionGraph up to the first await
fetchTransactionGraph(c, eff) ==
    IF eff.cancelled THEN [ c |-> c, eff |-> Ended(eff) ]
    ELSE IF ~IsValidAddress(eff.wallet)
    THEN [ c |-> [ c EXCEPT !.fetchProgress = "Initializing...",
                            !.errorMsg = "Invalid wallet address format",
                            !.loading = FALSE ],
           eff |-> Ended(eff) ]
    ELSE [ c |-> [ c EXCEPT !.loading = TRUE, !.errorMsg = "null",
                            !.fetchProgress = "Fetching transaction history..." ],
           eff |-> [ eff EXCEPT !.pc = "fetching", !.retries = 0 ] ]

\* lines 541-555
waitForSVG(c, eff, ref, retries) ==
    IF eff.cancelled THEN [ c |-> c, eff |-> Ended(eff) ]
    ELSE IF ref # "null" THEN fetchTransactionGraph(c, eff)
    ELSE IF retries < FrameRetries
    THEN [ c |-> c, eff |-> [ eff EXCEPT !.retries = retries, !.pc = "frame" ] ]
    ELSE [ c |-> [ c EXCEPT !.errorMsg = "Unable to initialize graph visualization - SVG element not found",
                            !.loading = FALSE ],
           eff |-> Ended(eff) ]

\* lines 1242-1247: the cleanup the effect returned; cancelAnimationFrame
\* stops the frame callback that is pending, if one is
cleanup(eff) ==
    IF eff.wallet = EmptyAddress THEN eff
    ELSE [ eff EXCEPT !.cancelled = TRUE, !.pc = IF @ = "frame" THEN "ended" ELSE @,
                      !.retries = 0 ]

\* the cleanup of the effect that ran last
CleanedUp(effs) ==
    IF effs = << >> THEN effs ELSE [ effs EXCEPT ![Len(effs)] = cleanup(@) ]

ComponentFrame ==
    /\ UNCHANGED << endpoint, reqAddress, reqDeployer, upstreamCalls, response >>
    /\ UNCHANGED scoreVars
    /\ UNCHANGED flowVars

\* the closure e has taken a step with the result r
Continue(e, r, effs) ==
    /\ loading' = r.c.loading
    /\ errorMsg' = r.c.errorMsg
    /\ fetchProgress' = r.c.fetchProgress
    /\ svg' = r.c.svg
    /\ effects' = [ effs EXCEPT ![e] = r.eff ]

InitComponent ==
    /\ endpoint = "transaction-graph"
    /\ pc = "mounted"
    /\ reqAddress = EmptyAddress
    /\ reqDeployer = EmptyAddress
    /\ upstreamCalls = 0
    /\ response = NoResponse
    /\ ScoreIdle
    /\ FlowIdle
    /\ wallet \in Wallets
    /\ svgRef \in { "null", "svg" }
    /\ svg = NoGraph
    /\ loading = TRUE
    /\ errorMsg = "null"
    /\ fetchProgress = "null"
    /\ pendingEffect = TRUE
    /\ effects = << >>

\* the SVG element is attached to svgRef
SvgAttach ==
    /\ endpoint = "transaction-graph"
    /\ pc = "mounted"
    /\ svgRef = "null"
    /\ svgRef' = "svg"
    /\ UNCHANGED << pc, wallet, svg, loading, errorMsg, fetchProgress, pendingEffect, effects >>
    /\ ComponentFrame

\* the parent renders the component with another wallet
ChangeWallet ==
    /\ endpoint = "transaction-graph"
    /\ pc = "mounted"
    /\ ~pendingEffect
    /\ Len(effects) < MaxEffects
    /\ \E w \in Wallets \ { wallet } : wallet' = w
    /\ pendingEffect' = TRUE
    /\ UNCHANGED << pc, svgRef, svg, loading, errorMsg, fetchProgress, effects >>
    /\ ComponentFrame

\* lines 526-557 and 1242-1247: the cleanup of the previous effect, then the
\* effect for the wallet rendered
RunEffect ==
    /\ endpoint = "transaction-graph"
    /\ pc = "mounted"
    /\ pendingEffect
    /\ pendingEffect' = FALSE
    /\ LET effs == Append(CleanedUp(effects), Effect(wallet))
       IN  IF wallet = EmptyAddress
           THEN Continue(Len(effs),
                         [ c |-> [ Component EXCEPT !.loading = FALSE,
                                                    !.errorMsg = "No wallet address provided" ],
                           eff |-> Ended(Effect(wallet)) ],
                         effs)
           ELSE Continue(Len(effs), waitForSVG(Component, Effect(wallet), svgRef, 0), effs)
    /\ UNCHANGED << pc, wallet, svgRef >>
    /\ ComponentFrame

\* line 547: the frame requested by waitForSVG
AnimationFrame ==
    /\ endpoint = "transaction-graph"
    /\ \E e \in 1..Len(effects) :
          /\ effects[e].pc = "frame"
          /\ Continue(e, waitForSVG(Component, effects[e], svgRef, effects[e].retries + 1),
                      effects)
    /\ UNCHANGED << pc, wallet, svgRef, pendingEffect >>
    /\ ComponentFrame

\* lines 583-601: the await of one attempt settles
HistorySettles(e) ==
    /\ endpoint = "transaction-graph"
    /\ e \in 1..Len(effects)
    /\ effects[e].pc = "fetching"
    /\ \E result \in HistoryResults, ms \in HistoryDurations :
          Continue(e, historySettled(Component, effects[e], result, ms), effects)
    /\ UNCHANGED << pc, wallet, svgRef, pendingEffect >>
    /\ ComponentFrame

\* line 599: the timer of the wait fires and the loop makes the next attempt
BackoffEnds(e) ==
    /\ endpoint = "transaction-graph"
    /\ e \in 1..Len(effects)
    /\ effects[e].pc = "backoff"
    /\ effects' = [ effects EXCEPT ![e] = [ @ EXCEPT !.pc = "fetching", !.attemptMs = 0,
                                                      !.waitMs = 0 ] ]
    /\ UNCHANGED << pc, wallet, svgRef, svg, loading, errorMsg, fetchProgress, pendingEffect >>
    /\ ComponentFrame

\* lines 626-632: the await of the balance of the main wallet settles, with a
\* balance or with an error that is caught
BalanceSettles ==
    /\ endpoint = "transaction-graph"
    /\ \E e \in 1..Len(effects) :
          /\ effects[e].pc = "balance"
          /\ Continue(e, afterBalance(Component, effects[e], svgRef), effects)
    /\ UNCHANGED << pc, wallet, svgRef, pendingEffect >>
    /\ ComponentFrame

\* lines 798-802: the await of the balances of the connected wallets settles
BalancesSettle ==
    /\ endpoint = "transaction-graph"
    /\ \E e \in 1..Len(effects) :
          /\ effects[e].pc = "balances"
          /\ Continue(e, afterBalances(Component, effects[e], svgRef), effects)
    /\ UNCHANGED << pc, wallet, svgRef, pendingEffect >>
    /\ ComponentFrame

\* the component is removed: the ref is detached and the cleanup runs
Unmount ==
    /\ endpoint = "transaction-graph"
    /\ pc = "mounted"
    /\ pc' = "unmounted"
    /\ svgRef' = "null"
    /\ pendingEffect' = FALSE
    /\ effects' = CleanedUp(effects)
    /\ UNCHANGED << wallet, svg, loading, errorMsg, fetchProgress >>
    /\ ComponentFrame

NextComponent ==
    \/ SvgAttach
    \/ ChangeWallet
    \/ RunEffect
    \/ AnimationFrame
    \/ \E e \in 1..MaxEffects : HistorySettles(e)
    \/ \E e \in 1..MaxEffects : BackoffEnds(e)
    \/ BalanceSettles
    \/ BalancesSettle
    \/ Unmount

SpecComponent == InitComponent /\ [][NextComponent]_vars

\* every pending attempt settles, by the timer of fetchWithTimeout at the
\* latest, and every timer of a wait fires
FairComponent ==
    /\ SpecComponent
    /\ \A e \in 1..MaxEffects : WF_vars(HistorySettles(e))
    /\ \A e \in 1..MaxEffects : WF_vars(BackoffEnds(e))

-----------------------------------------------------------------------------
(* Claims about the scoring functions *)

Clamp(x, lo, hi) == IF x < lo THEN lo ELSE IF x > hi THEN hi ELSE x

\* C1: every score is an integer in 0..100 and the risk level is 'low' exactly
\* for score >= 80, 'medium' exactly for 60 <= score < 80, 'high' exactly for
\* score < 60.
C1_ScoreRangeAndRiskLevel ==
    pc = "scored" =>
        /\ score \in 0..100
        /\ (riskLevel = "low") <=> (score >= 80)
        /\ (riskLevel = "medium") <=> (score >= 60 /\ score < 80)
        /\ (riskLevel = "high") <=> (score < 60)

C1_Witness == pc = "scored" /\ score = 80 /\ riskLevel = "low"

ExampleWallet ==
    [ NoAnalysis EXCEPT !.largeTransfers = 5, !.counterpartyDiversity = Rat(2, 5),
                        !.stakingActivityRatio = Rat(1, 5), !.walletAgeMonths = Rat(6, 1),
                        !.legitimateProgramUsage = 4, !.transactionFrequency = Rat(1, 2),
                        !.transactionCount = 10 ]

\* C2: the score is the clamped sum of the base 50 and the eight capped
\* terms; 10 or more large transfers all cost 30 points; the example wallet
\* scores 71, 'medium'.
C2_ScoreFormula ==
    pc = "scored" =>
        /\ score = Clamp(50 - 15 * analysis.flaggedInteractions
                            - 20 * analysis.blacklistedProgramUsage
                            - Min(3 * analysis.largeTransfers, 30)
                            + RoundTimes(20, analysis.counterpartyDiversity)
                            + RoundTimes(25, analysis.stakingActivityRatio)
                            + Min(RoundTimes(2, analysis.walletAgeMonths), 24)
                            + Min(2 * analysis.legitimateProgramUsage, 20)
                            + Min(RoundTimes(5, analysis.transactionFrequency), 15),
                         0, 100)
        /\ analysis.largeTransfers >= 10 => factors[3].impact = -30
        /\ analysis = ExampleWallet => score = 71 /\ riskLevel = "medium"

C2_Witness == pc = "scored" /\ analysis = ExampleWallet /\ score = 71

-----------------------------------------------------------------------------
(* Claims about the graphs *)

GraphEndpoints == { "fund-flow-analysis", "fund-sources", "developer-network",
                    "deployer-network" }

\* C3: the result of analyzeFundFlows has at most 30 nodes and at most 50
\* links, however many counterparties the transactions have and whatever the
\* secondary expansion added.
C3_NodeAndLinkCaps ==
    (endpoint = "fund-flow-analysis" /\ pc = "done" /\ response.status = 200) =>
        /\ Len(response.nodes) <= 30
        /\ Len(response.links) <= 50

C3_Witness ==
    /\ endpoint = "fund-flow-analysis"
    /\ pc = "done"
    /\ srcIndex > 0
    /\ Len(nodes) > BulkSize + 1
    /\ Len(links) > 50
    /\ Len(response.nodes) = 30
    /\ Len(response.links) = 50

\* C4: in the result of analyzeFundFlows the source and the target of every
\* link are ids of nodes of the returned node list, also when the lists were
\* truncated.
C4_LinksReferenceReturnedNodes ==
    (endpoint = "fund-flow-analysis" /\ pc = "done" /\ response.status = 200) =>
        \A i \in 1..Len(response.links) :
            /\ HasNode(response.nodes, response.links[i].source)
            /\ HasNode(response.nodes, response.links[i].target)

\* C5: no two nodes of a returned graph have the same id, in analyzeFundFlows,
\* analyzeFundSources, analyzeDeveloperNetwork and buildNetworkGraph, also
\* when the mint is its own deployer or a funding source is the mint, the
\* deployer or the developer.
C5_NodeIdsUnique ==
    (endpoint \in GraphEndpoints /\ pc = "done" /\ response.status = 200) =>
        \A i, j \in 1..Len(response.nodes) :
            response.nodes[i].id = response.nodes[j].id => i = j

\* C6: a graph endpoint asked about a non-empty address answers with a graph
\* whose nodes contain the node of that address, whatever the upstream
\* replies; after an internal error fund-flow-analysis answers the central
\* node alone, no links, zero totals and the one pattern 'Unable to analyze
\* fund flows'.
C6_CentralNodeAlwaysReturned ==
    (endpoint \in GraphEndpoints /\ pc = "done" /\ reqAddress # EmptyAddress) =>
        /\ response.status = 200
        /\ HasNode(response.nodes, reqAddress)
        /\ (endpoint = "fund-flow-analysis" /\ pc = "done" /\ nodes = << DeveloperNode(reqAddress) >>
              /\ "Unable to analyze fund flows" \in Range(response.suspiciousPatterns)) =>
                /\ response.nodes = << DeveloperNode(reqAddress) >>
                /\ response.links = << >>
                /\ response.totalFundsReceived = 0
                /\ response.totalFundsSent = 0
                /\ response.suspiciousPatterns = << "Unable to analyze fund flows" >>

-----------------------------------------------------------------------------
(* Claims about failures of the upstream *)

\* the fold of lines 100-137 over the signatures from the index given, the
\* ones of the set left out
RECURSIVE FoldKept(_, _, _, _, _)
FoldKept(st, sigs, i, out, developerAddress) ==
    IF i > Len(sigs) THEN st
    ELSE FoldKept(IF i \in out THEN st
                  ELSE MergeFlows(st, analyzeFundFlow(sigs[i].tx, developerAddress),
                                  sigs[i].blockTime),
                  sigs, i + 1, out, developerAddress)

EmptyFold == [ fundSources |-> << >>, totalFundsReceived |-> 0, totalFundsSent |-> 0 ]

\* C7: a failing upstream fetch fails no request: a scoring request with a
\* well-formed address is answered 200 whichever of its three fetches fail,
\* with the score of the empty history when the history fetch failed; in
\* analyzeFundFlows exactly the transactions whose fetch gave nothing are
\* left out and all the others are folded into the result.
C7_FetchFailuresTolerated ==
    /\ (endpoint = "reputability-score" /\ pc = "done" /\ IsValidAddress(reqAddress)) =>
           /\ response.status = 200
           /\ "getTransactionHistory" \in fetchFailed =>
                 /\ response.walletAnalysis.transactionCount = 0
                 /\ response.score = 50
    /\ (endpoint = "fund-flow-analysis" /\ pc \in { "secondary", "done" }
          /\ sigIndex >= Len(FoldList(signatures))) =>
           LET st == FoldKept(EmptyFold, FoldList(signatures), 1, skipped, reqAddress)
           IN  /\ fundSources = st.fundSources
               /\ totalFundsReceived = st.totalFundsReceived
               /\ totalFundsSent = st.totalFundsSent
               /\ (pc = "done" /\ signatures # << >>) =>
                     /\ response.status = 200
                     /\ response.totalFundsReceived = st.totalFundsReceived
                     /\ response.totalFundsSent = st.totalFundsSent

C7_Witness ==
    /\ endpoint = "fund-flow-analysis"
    /\ pc = "done"
    /\ Len(signatures) = 2
    /\ skipped = { 1 }
    /\ fundSources # << >>
    /\ response.totalFundsReceived > 0

\* C8: every endpoint that takes an address rejects one that is no base58
\* string of 32 to 44 characters with a 4xx answer and without any call to the
\* chain-data provider.
C8_MalformedAddressRejected ==
    ~IsValidAddress(reqAddress) =>
        /\ upstreamCalls = 0
        /\ pc = "done" => response.status \in 400..499

\* C9: when text generation fails the scoring request is still answered 200,
\* with the score, factors, risk level and recommendations that any outcome
\* of the generation gives, and with the fallback template of the bracket of
\* the score: >= 80, else >= 60, else the third.
C9_FallbackKeepsScore ==
    [][(endpoint = "reputability-score" /\ pc = "generateText" /\ pc' = "done") =>
          /\ response'.status = 200
          /\ response'.score = score
          /\ response'.factors = factors
          /\ response'.riskLevel = (IF score >= 80 THEN "low"
                                    ELSE IF score >= 60 THEN "medium" ELSE "high")
          /\ response'.recommendations = generateRecommendations(analysis, score)
          /\ response'.explanation = explanation'
          /\ explanation'.template # "generated" =>
                /\ explanation'.score = score
                /\ explanation'.template = (IF score >= 80 THEN "excellent"
                                            ELSE IF score >= 60 THEN "good" ELSE "concerning")
      ]_vars

C9_Witness ==
    /\ endpoint = "reputability-score"
    /\ pc = "done"
    /\ response.status = 200
    /\ response.explanation.template = "good"
    /\ response.score \in 60..79
    /\ response.riskLevel = "medium"

\* C10: a scoring request is answered in the end even when the
\* text-generation service never replies.
C10_ScoreEventuallyAnswered == <>(pc = "done")

-----------------------------------------------------------------------------
(* Claims about the scoring of transaction lists *)

\* C11: scoring the same transaction list twice gives the same score, factors
\* and recommendations, whatever the moments at which it is scored.
C11_ScoringIdempotent ==
    [][(endpoint = "list" /\ pc = "scored" /\ pc' = "rescored"
          /\ transactions' = transactions) =>
          /\ score' = score
          /\ factors' = factors
          /\ recommendations' = recommendations
      ]_vars

\* C12: the empty transaction list gives zero for every count and ratio and a
\* wallet age of 0.1 months, an age bonus of 0, the score 50 and the risk
\* level 'high'.
C12_EmptyListScores50 ==
    (endpoint = "list" /\ pc = "scored" /\ transactions = << >>) =>
        /\ analysis.flaggedInteractions = 0
        /\ analysis.blacklistedProgramUsage = 0
        /\ analysis.legitimateProgramUsage = 0
        /\ analysis.largeTransfers = 0
        /\ analysis.totalVolume = 0
        /\ analysis.counterpartyCount = 0
        /\ analysis.counterpartyDiversity.n = 0
        /\ analysis.transactionCount = 0
        /\ analysis.recentTransactions = 0
        /\ analysis.transactionFrequency.n = 0
        /\ analysis.stakingTransactions = 0
        /\ analysis.stakingActivityRatio.n = 0
        /\ analysis.walletAgeMonths = Rat(1, 10)
        /\ \A i \in 1..Len(factors) : factors[i].impact = 0
        /\ Len(factors) = 8
        /\ score = 50
        /\ riskLevel = "high"

C12_Witness ==
    /\ endpoint = "list"
    /\ pc = "scored"
    /\ transactions = << >>
    /\ now = 200
    /\ score = 50

Advisories == << RecFlagged, RecBlacklisted, RecStaking, RecDiversity, RecLegitimate, RecAge,
                 RecLarge >>

\* the condition of the k-th check of generateRecommendations
AdvisoryHolds(a, k) ==
    CASE k = 1 -> a.flaggedInteractions > 0
      [] k = 2 -> a.blacklistedProgramUsage > 0
      [] k = 3 -> a.stakingActivityRatio.n * 10 < a.stakingActivityRatio.d
      [] k = 4 -> a.counterpartyDiversity.n * 10 < 3 * a.counterpartyDiversity.d
      [] k = 5 -> a.legitimateProgramUsage < 3
      [] k = 6 -> a.walletAgeMonths.n < 3 * a.walletAgeMonths.d
      [] OTHER -> a.largeTransfers > 10

\* C13: the recommendations are exactly the advisory strings of the
\* conditions that hold, each once and in the order of the checks; when no
\* condition holds they are the two default strings in their order, and a
\* default never comes with an advisory string.
C13_RecommendationsExact ==
    pc = "scored" =>
        LET held == { k \in 1..7 : AdvisoryHolds(analysis, k) }
            Pos(k) == CHOOSE i \in 1..Len(recommendations) : recommendations[i] = Advisories[k]
        IN  /\ \A k \in 1..7 : (Advisories[k] \in Range(recommendations)) <=> (k \in held)
            /\ \A i, j \in 1..Len(recommendations) :
                  recommendations[i] = recommendations[j] => i = j
            /\ \A k, l \in held : k < l => Pos(k) < Pos(l)
            /\ held = {} => recommendations = << RecDefault1, RecDefault2 >>
            /\ held # {} => Len(recommendations) = Cardinality(held)

C13_Witness ==
    /\ endpoint = "calc"
    /\ pc = "scored"
    /\ recommendations = << RecFlagged, RecStaking, RecAge, RecLarge >>

C13_WitnessDefaults ==
    /\ endpoint = "calc"
    /\ pc = "scored"
    /\ recommendations = << RecDefault1, RecDefault2 >>

\* the impact of the factor of the name given
ImpactOf(fs, name) == fs[CHOOSE i \in 1..Len(fs) : fs[i].name = name].impact

\* C14: with the number of transactions fixed, more unique counterparties
\* never give a smaller impact of the 'Counterparty Diversity' factor, and
\* once the diversity has reached 1.0 the impact stays at its maximum, 20.
C14_DiversityMonotone ==
    [][(endpoint = "list" /\ pc = "scored" /\ pc' = "scored"
          /\ Len(transactions') = Len(transactions)
          /\ analysis'.counterpartyCount >= analysis.counterpartyCount) =>
          /\ ImpactOf(factors', "Counterparty Diversity")
                >= ImpactOf(factors, "Counterparty Diversity")
          /\ ImpactOf(factors', "Counterparty Diversity") <= 20
          /\ analysis.counterpartyDiversity.n >= analysis.counterpartyDiversity.d =>
                /\ ImpactOf(factors, "Counterparty Diversity") = 20
                /\ ImpactOf(factors', "Counterparty Diversity") = 20
      ]_vars

C14_Witness ==
    /\ endpoint = "list"
    /\ pc = "scored"
    /\ Len(transactions) = 6
    /\ analysis.counterpartyCount = 4
    /\ analysis.counterpartyDiversity = Rat(1, 1)
    /\ ImpactOf(factors, "Counterparty Diversity") = 20

-----------------------------------------------------------------------------
(* Claims about the patterns and the risk score of a fund-flow graph *)

Detected == endpoint = "detect" /\ pc \in { "detected", "removed" }

\* some address that is no developer node has an incoming and an outgoing node
HasOverlap(ns) ==
    \E i, j \in 1..Len(ns) :
        /\ ns[i].id = ns[j].id
        /\ ns[i].type # "developer" /\ ns[j].type # "developer"
        /\ ns[i].fundDirection = "incoming" /\ ns[j].fundDirection = "outgoing"

\* C15: 'Circular funding detected' is reported exactly when an address that
\* is no developer node is in the node list with direction 'incoming' and
\* with direction 'outgoing'; with the overlap taken out of the list the
\* pattern is gone.
C15_CircularFundingIff ==
    Detected =>
        /\ ("Circular funding detected" \in Range(suspiciousPatterns)) <=> HasOverlap(nodes)
        /\ pc = "removed" => "Circular funding detected" \notin Range(suspiciousPatterns)

C15_Witness ==
    /\ endpoint = "detect"
    /\ pc = "detected"
    /\ HasOverlap(nodes)
    /\ "Circular funding detected" \in Range(suspiciousPatterns)

C15_WitnessRemoved ==
    /\ endpoint = "detect"
    /\ pc = "removed"
    /\ \E i \in 1..Len(nodes) : nodes[i].id = 50 /\ nodes[i].fundDirection = "incoming"
    /\ "Circular funding detected" \notin Range(suspiciousPatterns)

CountType(ns, type) == Cardinality({ i \in 1..Len(ns) : ns[i].type = type })

\* C16: each of the four other checks reports its pattern exactly under its
\* own condition, whatever the other checks found, and at most 5 patterns
\* are returned.
C16_ChecksIndependent ==
    Detected =>
        LET P == Range(suspiciousPatterns)
        IN  /\ ("Potential wash trading" \in P)
                  <=> (5 * totalFundsSent > 4 * totalFundsReceived /\ totalFundsSent > 5 * SOL)
            /\ ("Multiple unknown funding sources" \in P)
                  <=> (Cardinality({ i \in 1..Len(nodes) :
                                       nodes[i].type = "unknown" /\ nodes[i].amount > SOL }) > 3)
            /\ ("High frequency transactions" \in P)
                  <=> (Cardinality({ i \in 1..Len(links) : links[i].frequency > 20 }) > 2)
            /\ ("No exchange funding detected" \in P)
                  <=> (CountType(nodes, "exchange") = 0
                       /\ totalFundsReceived > 10 * SOL)
            /\ Len(suspiciousPatterns) <= 5
            /\ Len(suspiciousPatterns) = Cardinality(P)

C16_Witness ==
    /\ endpoint = "detect"
    /\ pc = "detected"
    /\ suspiciousPatterns = << "Circular funding detected", "Potential wash trading",
                               "Multiple unknown funding sources",
                               "High frequency transactions",
                               "No exchange funding detected" >>

C16_WitnessOne ==
    /\ endpoint = "detect"
    /\ pc = "detected"
    /\ suspiciousPatterns = << "High frequency transactions" >>

\* C17: the risk score is clamp(30 + 15 per pattern + 20 without exchange node
\* and with more than 10 SOL received + 5 per unknown node + 10 per high-risk
\* node + 10 with more than 2 whale nodes - 8 per exchange node - 5 with 1 to
\* 4 contract nodes, 0, 100), so it lies in 0..100.
C17_RiskScoreFormula ==
    Detected =>
        /\ riskScore =
             Clamp(30 + 15 * Len(suspiciousPatterns)
                   + (IF CountType(nodes, "exchange") = 0
                         /\ totalFundsReceived > 10 * SOL THEN 20 ELSE 0)
                   + 5 * CountType(nodes, "unknown")
                   + 10 * Cardinality({ i \in 1..Len(nodes) : nodes[i].riskLevel = "high" })
                   + (IF CountType(nodes, "whale") > 2 THEN 10 ELSE 0)
                   - 8 * CountType(nodes, "exchange")
                   - (IF CountType(nodes, "contract") \in 1..4
                      THEN 5 ELSE 0),
                   0, 100)
        /\ riskScore \in 0..100

C17_Witness ==
    /\ endpoint = "detect"
    /\ pc = "detected"
    /\ riskScore = 0
    /\ CountType(nodes, "exchange") = 4
    /\ suspiciousPatterns = << >>

C17_WitnessCapped ==
    /\ endpoint = "detect"
    /\ pc = "detected"
    /\ riskScore = 100
    /\ Len(suspiciousPatterns) = 5

-----------------------------------------------------------------------------
(* Claims about truncation and the fold of analyzeFundFlows *)

\* C18: when analyzeFundFlows has more nodes or links than the caps, the
\* entries kept are the ones with the highest amounts: no counterparty node
\* left out has a larger amount than a counterparty node kept, and no link
\* left out has a larger amount than a link kept.
C18_TruncationKeepsLargest ==
    (endpoint = "fund-flow-analysis" /\ pc = "done" /\ response.status = 200
       /\ signatures # << >>) =>
        /\ \A i \in 1..Len(response.nodes), j \in (Len(response.nodes) + 1)..Len(nodes) :
              response.nodes[i].type # "developer" => nodes[j].amount <= response.nodes[i].amount
        /\ \A i \in 1..Len(response.links), j \in (Len(response.links) + 1)..Len(links) :
              links[j].amount <= response.links[i].amount

\* the list sigs in the order p
Reordered(sigs, p) == [ i \in 1..Len(sigs) |-> sigs[p[i]] ]

\* C19: folding the same transactions in any order gives the same
\* per-counterparty records (amount, count, lastSeen, direction, type and
\* riskLevel) and the same totals.
C19_FoldOrderIndependent ==
    (endpoint = "fund-flow-analysis" /\ pc = "secondary" /\ skipped = {}) =>
        \A p \in Permutations(1..Len(FoldList(signatures))) :
            LET st == FoldKept(EmptyFold, Reordered(FoldList(signatures), p), 1, {}, reqAddress)
            IN  /\ Range(st.fundSources) = Range(fundSources)
                /\ st.totalFundsReceived = totalFundsReceived
                /\ st.totalFundsSent = totalFundsSent

\* the flow of the transaction folded in this step for the address given
FlowOf(address) ==
    LET flows == analyzeFundFlow(FoldList(signatures)[sigIndex + 1].tx, reqAddress)
    IN  flows[CHOOSE i \in 1..Len(flows) : flows[i].address = address]

\* C20: during the folds the direction of a counterparty record is the
\* direction of its first flow, becomes 'both' at the first flow of another
\* direction than the stored one, and once 'both' stays 'both'.
C20_DirectionBothIsSticky ==
    [][(endpoint = "fund-flow-analysis" /\ pc \in { "fold", "secondaryFold" }
          /\ sigIndex' = sigIndex + 1) =>
          \A i \in 1..Len(fundSources') :
              LET new == fundSources'[i]
                  k == MapIndex(fundSources, new.address)
              IN  /\ new.direction \in { "incoming", "outgoing", "both" }
                  /\ k = 0 => new.direction = FlowOf(new.address).direction
                  /\ (k # 0 /\ fundSources[k].direction = "both") => new.direction = "both"
                  /\ (k # 0 /\ new.count = fundSources[k].count) =>
                        new.direction = fundSources[k].direction
                  /\ (k # 0 /\ new.count > fundSources[k].count) =>
                        new.direction = IF fundSources[k].direction = FlowOf(new.address).direction
                                        THEN fundSources[k].direction ELSE "both"
      ]_vars

C20_Witness ==
    /\ endpoint = "fund-flow-analysis"
    /\ pc = "fold"
    /\ sigIndex = 3
    /\ skipped = {}
    /\ signatures[1].blockTime = 10 /\ signatures[2].blockTime = 20 /\ signatures[3].blockTime = 10
    /\ \E i \in 1..Len(fundSources) :
          fundSources[i].count = 3 /\ fundSources[i].direction = "both"

C20_WitnessSecondary ==
    /\ endpoint = "fund-flow-analysis"
    /\ pc = "secondaryFold"
    /\ sigIndex = 3
    /\ skipped = {}
    /\ signatures[1].blockTime = 10 /\ signatures[2].blockTime = 20 /\ signatures[3].blockTime = 10
    /\ \E i \in 1..Len(fundSources) :
          fundSources[i].count = 3 /\ fundSources[i].direction = "both"

\* C21: the riskLevel and type of a counterparty record are set when the
\* record is created, from the address, amount and type of its first flow, and
\* merging a later flow leaves both unchanged whatever the accumulated amount.
C21_RiskLevelFixedAtCreation ==
    [][(endpoint = "fund-flow-analysis" /\ pc = "fold" /\ sigIndex' = sigIndex + 1) =>
          \A i \in 1..Len(fundSources') :
              LET new == fundSources'[i]
                  k == MapIndex(fundSources, new.address)
              IN  /\ k = 0 =>
                        /\ new.type = FlowOf(new.address).type
                        /\ new.riskLevel = assessAddressRisk(new.address,
                                                             FlowOf(new.address).amount,
                                                             FlowOf(new.address).type)
                  /\ k # 0 =>
                        /\ new.type = fundSources[k].type
                        /\ new.riskLevel = fundSources[k].riskLevel
      ]_vars

\* a record created by a 2 SOL flow that has grown past 10 SOL and is still
\* 'low'
C21_Witness ==
    /\ endpoint = "fund-flow-analysis"
    /\ pc = "fold"
    /\ \E i \in 1..Len(fundSources) :
          /\ fundSources[i].count >= 2
          /\ fundSources[i].amount > 10 * SOL
          /\ fundSources[i].riskLevel = "low"

\* a record of type 'unknown' that has grown past 100 SOL and is still
\* 'medium'
C21_WitnessUnknown ==
    /\ endpoint = "fund-flow-analysis"
    /\ pc = "fold"
    /\ \E i \in 1..Len(fundSources) :
          /\ fundSources[i].type = "unknown"
          /\ fundSources[i].amount > 100 * SOL
          /\ fundSources[i].riskLevel = "medium"

-----------------------------------------------------------------------------
(* Claims about analyzeFundFlow *)

\* the balance change of the account at index i of the analyzed transaction
DeltaAt(i) == signatures[1].tx.postBalances[i] - signatures[1].tx.preBalances[i]

\* the balance change of the target address, which is among the account keys
TargetDelta ==
    DeltaAt(CHOOSE i \in 1..Len(signatures[1].tx.accountKeys) :
                signatures[1].tx.accountKeys[i] = reqAddress)

\* the indices of the other accounts whose balance moved by more than 10,000
\* lamports
MovedOthers ==
    { i \in 1..Len(signatures[1].tx.accountKeys) :
          signatures[1].tx.accountKeys[i] # reqAddress /\ Abs(DeltaAt(i)) > 10 }

\* C22: analyzeFundFlow returns no flows when the target is not among the
\* account keys; otherwise one flow for each other account whose balance moved
\* by more than 10,000 lamports, all with one direction: 'incoming' when the
\* target's balance change is positive, 'outgoing' otherwise.
C22_FlowsAndDirection ==
    (endpoint = "fund-flow-analysis" /\ pc = "analyzed") =>
        IF reqAddress \notin Range(signatures[1].tx.accountKeys)
        THEN fundSources = << >>
        ELSE /\ Len(fundSources) = Cardinality(MovedOthers)
             /\ { fundSources[i].address : i \in 1..Len(fundSources) }
                  = { signatures[1].tx.accountKeys[i] : i \in MovedOthers }
             /\ \A i \in 1..Len(fundSources) :
                   fundSources[i].direction
                     = IF TargetDelta > 0 THEN "incoming" ELSE "outgoing"

\* the target gains, and so does a counterparty, whose flow is 'incoming'
C22_Witness ==
    /\ endpoint = "fund-flow-analysis"
    /\ pc = "analyzed"
    /\ reqAddress \in Range(signatures[1].tx.accountKeys)
    /\ TargetDelta > 0
    /\ Len(fundSources) = 2
    /\ \E i \in MovedOthers : DeltaAt(i) > 0
    /\ \E i \in MovedOthers : DeltaAt(i) < 0

\* the target is not among the account keys
C22_WitnessAbsent ==
    /\ endpoint = "fund-flow-analysis"
    /\ pc = "analyzed"
    /\ reqAddress \notin Range(signatures[1].tx.accountKeys)
    /\ \E i \in MovedOthers : TRUE

\* C23: every flow analyzeFundFlow records carries as amount the absolute value
\* of the target's own balance change, the same for all counterparties of the
\* transaction.
C23_AmountIsTargetDelta ==
    (endpoint = "fund-flow-analysis" /\ pc = "analyzed"
       /\ reqAddress \in Range(signatures[1].tx.accountKeys)) =>
        \A i \in 1..Len(fundSources) : fundSources[i].amount = Abs(TargetDelta)

-----------------------------------------------------------------------------
(* Claims about the secondary-hop expansion *)

\* the number of nodes the primary graph has: the developer and one node for
\* each material counterparty record
PrimaryCount ==
    1 + Cardinality({ i \in 1..Len(fundSources) : IsMaterial(fundSources[i], reqAddress) })

\* the expansion runs after the fold, over at most 3 primary nodes above
\* 1 SOL, and adds at most 2 nodes per expanded node, each linked to the node
\* it was found from
SecondaryBounded ==
    /\ sigIndex >= Len(FoldList(signatures))
    /\ Len(majorSources) <= 3
    /\ \A m \in 1..Len(majorSources) :
          \E i \in 2..PrimaryCount : nodes[i].id = majorSources[m] /\ nodes[i].amount > SOL
    /\ Len(nodes) - PrimaryCount <= 2 * srcIndex
    /\ Len(nodes) - PrimaryCount <= 6
    /\ Len(links) - (PrimaryCount - 1) = Len(nodes) - PrimaryCount
    /\ \A j \in (PrimaryCount + 1)..Len(nodes) :
          \E m \in 1..srcIndex, l \in PrimaryCount..Len(links) :
              { links[l].source, links[l].target } = { nodes[j].id, majorSources[m] }

\* no primary node left unexpanded is larger than an expanded one
MajorAreLargest ==
    \A i, j \in 2..PrimaryCount :
        (nodes[i].id \in Range(majorSources) /\ nodes[j].id \notin Range(majorSources))
            => nodes[j].amount <= nodes[i].amount

\* C24: the secondary-hop expansion starts after the primary fold, expands at
\* most 3 primary nodes, the largest ones, each above 1 SOL, adds at most 2
\* nodes and links per expanded node (6 in total) and never expands a
\* secondary node, so every node is within 2 hops of the developer.
C24_SecondaryExpansionBounded ==
    (endpoint = "fund-flow-analysis" /\ pc = "secondary") =>
        (SecondaryBounded /\ MajorAreLargest)

-----------------------------------------------------------------------------
(* Claims about the factor list *)

FactorNames ==
    << "Flagged Address Interactions", "Blacklisted Program Usage",
       "Large Transfer Activity", "Counterparty Diversity", "Staking Activity",
       "Wallet Age", "Legitimate Program Usage", "Transaction Activity" >>

RECURSIVE SumImpacts(_)
SumImpacts(fs) == IF fs = << >> THEN 0 ELSE Head(fs).impact + SumImpacts(Tail(fs))

\* C26: calculateReputabilityScore returns exactly 8 factors in one fixed
\* order, and the score is 50 plus the sum of their impacts, clamped to 0..100.
C26_FactorsAccountForScore ==
    pc = "scored" =>
        /\ Len(factors) = 8
        /\ \A i \in 1..8 : factors[i].name = FactorNames[i]
        /\ score = Clamp(50 + SumImpacts(factors), 0, 100)

\* a score inside the range, made of penalties and bonuses
C26_Witness ==
    /\ pc = "scored"
    /\ score \in 1..99
    /\ factors[1].impact < 0
    /\ factors[3].impact < 0
    /\ factors[4].impact > 0
    /\ factors[8].impact > 0

\* a sum below zero, clamped
C26_WitnessClamped ==
    /\ pc = "scored"
    /\ score = 0
    /\ 50 + SumImpacts(factors) < 0

-----------------------------------------------------------------------------
(* Claims about what analyzeFundFlows can report *)

\* C27: analyzeFundFlows never reports 'Circular funding detected': every
\* counterparty address has one node with one fundDirection, so when the
\* patterns are detected no address is both an 'incoming' and an 'outgoing'
\* node.
C27_NoCircularFunding ==
    (endpoint = "fund-flow-analysis" /\ pc = "secondary") =>
        /\ "Circular funding detected" \notin Range(suspiciousPatterns)
        /\ srcIndex = 0 =>
              /\ \A i, j \in 1..Len(nodes) : nodes[i].id = nodes[j].id => i = j
              /\ ~HasOverlap(nodes)

\* a counterparty that both paid and was paid has one node, 'both'
C27_Witness ==
    /\ endpoint = "fund-flow-analysis"
    /\ pc = "secondary"
    /\ srcIndex = 0
    /\ \E i \in 1..Len(nodes) :
          /\ nodes[i].fundDirection = "both"
          /\ nodes[i].type # "developer"
          /\ nodes[i].transactionCount >= 2

NodeTypes == { "developer", "exchange", "whale", "contract", "fund_source" }

\* C28: no node analyzeFundFlows builds has type 'unknown', so 'Multiple
\* unknown funding sources' is never reported and the score has no points for
\* unknown nodes.
C28_NoUnknownNodes ==
    (endpoint = "fund-flow-analysis" /\ pc \in { "secondary", "done" }) =>
        /\ \A i \in 1..Len(nodes) : nodes[i].type \in NodeTypes
        /\ 5 * CountType(nodes, "unknown") = 0
        /\ "Multiple unknown funding sources" \notin Range(suspiciousPatterns)
        /\ response # NoResponse /\ response.status = 200 =>
              /\ \A i \in 1..Len(response.nodes) : response.nodes[i].type \in NodeTypes
              /\ "Multiple unknown funding sources" \notin Range(response.suspiciousPatterns)

\* a primary node and a secondary node built from flows of type 'unknown'
C28_Witness ==
    /\ endpoint = "fund-flow-analysis"
    /\ pc = "done"
    /\ response.status = 200
    /\ \E i \in 1..Len(fundSources) :
          /\ fundSources[i].type = "unknown"
          /\ HasNode(response.nodes, fundSources[i].address)
    /\ \E i \in (PrimaryCount + 1)..Len(nodes) :
          nodes[i].type = "fund_source" /\ nodes[i].amount = SOL \div 2

\* C29: the secondary-hop expansion and the truncation leave riskScore,
\* suspiciousPatterns, totalFundsReceived, totalFundsSent and fundingSources
\* as they were computed from the primary graph: the returned riskScore is the
\* score of the primary nodes and links, all of them.
C29_ExpansionKeepsScore ==
    [][(endpoint = "fund-flow-analysis" /\ pc = "secondary") =>
          /\ riskScore' = riskScore
          /\ suspiciousPatterns' = suspiciousPatterns
          /\ totalFundsReceived' = totalFundsReceived
          /\ totalFundsSent' = totalFundsSent
          /\ fundingSources' = fundingSources
          /\ pc' = "done" =>
                /\ response'.riskScore
                     = calculateFundFlowRiskScore(SubSeq(nodes, 1, PrimaryCount),
                                                  SubSeq(links, 1, PrimaryCount - 1),
                                                  totalFundsReceived, totalFundsSent,
                                                  suspiciousPatterns)
                /\ response'.suspiciousPatterns = suspiciousPatterns
                /\ response'.totalFundsReceived = totalFundsReceived
                /\ response'.totalFundsSent = totalFundsSent
                /\ response'.fundingSources = fundingSources
      ]_vars

\* a response with secondary nodes whose riskScore is not the score of the
\* nodes and links it returns
C29_Witness ==
    /\ endpoint = "fund-flow-analysis"
    /\ pc = "done"
    /\ response.status = 200
    /\ Len(nodes) > PrimaryCount
    /\ response.riskScore # calculateFundFlowRiskScore(response.nodes, response.links,
                                                        totalFundsReceived, totalFundsSent,
                                                        suspiciousPatterns)

\* a truncated response
C29_WitnessTruncated ==
    /\ endpoint = "fund-flow-analysis"
    /\ pc = "done"
    /\ response.status = 200
    /\ Len(response.nodes) < PrimaryCount
    /\ response.riskScore = riskScore

-----------------------------------------------------------------------------
(* Claims about the TransactionGraph component *)

InRetryLoop(e) == e <= Len(effects) /\ effects[e].pc \in { "fetching", "backoff" }

\* what holds of the retry loop in every state
RetryLoopBounded ==
    \A e \in 1..Len(effects) :
        /\ effects[e].retryCount <= 3
        /\ effects[e].pc = "fetching" => effects[e].retryCount < 3
        /\ effects[e].attemptMs <= 15000
        /\ effects[e].pc = "backoff" =>
              /\ effects[e].retryCount \in { 1, 2 }
              /\ effects[e].waitMs = 1000 * effects[e].retryCount

\* the third failure leaves the loop with an empty list and no error, and a
\* closure that is not cancelled then draws the main wallet node alone
ThirdFailureRendersMain ==
    \A e \in 1..Len(effects) :
        /\ (effects[e].pc = "fetching" /\ effects'[e].retryCount = 3) =>
              /\ effects'[e].transactions = 0
              /\ effects'[e].pc = IF effects[e].cancelled THEN "ended" ELSE "balance"
              /\ errorMsg' = errorMsg
              /\ loading' = loading
        /\ (effects[e].pc = "balance" /\ effects[e].retryCount = 3 /\ ~effects[e].cancelled
              /\ effects'[e].pc = "ended") =>
              /\ svg' = [ wallet |-> effects[e].wallet, nodes |-> 1 ]
              /\ errorMsg' = errorMsg
              /\ loading' = FALSE

\* C25: the transaction-history fetch is attempted at most 3 times, each
\* attempt settles within 15 s, the wait after the k-th failed attempt is
\* 1000*k ms (k = 1, 2), the retry loop always terminates (from some moment on
\* no closure is in it), and after the third
\* failure the effect goes on with an empty list and draws the main wallet
\* node alone without an error.
C25_RetryLoopBoundedAndEnds ==
    /\ []RetryLoopBounded
    /\ [][ThirdFailureRendersMain]_vars
    /\ <>[](\A e \in 1..MaxEffects : ~InRetryLoop(e))

\* three attempts failed, the last by the timer, and the main wallet node is
\* drawn alone
C25_Witness ==
    /\ endpoint = "transaction-graph"
    /\ \E e \in 1..Len(effects) :
          /\ effects[e].retryCount = 3
          /\ effects[e].pc = "ended"
          /\ ~effects[e].cancelled
          /\ svg = [ wallet |-> effects[e].wallet, nodes |-> 1 ]
    /\ errorMsg = "null"
    /\ ~loading

\* the second wait, of 2000 ms
C25_WitnessWait ==
    /\ endpoint = "transaction-graph"
    /\ \E e \in 1..Len(effects) :
          /\ effects[e].pc = "backoff"
          /\ effects[e].waitMs = 2000
          /\ effects[e].attemptMs = 15000

\* C30: a closure whose cleanup has run never draws into the SVG element and
\* never changes the loading or error state, whenever its awaits complete.
C30_StaleFetchIsSilent ==
    [][\A e \in 1..Len(effects) :
          (effects[e].cancelled /\ effects'[e] # effects[e]) =>
              /\ svg' = svg
              /\ loading' = loading
              /\ errorMsg' = errorMsg
      ]_vars

\* the fetch for the first wallet has ended after its cleanup, with
\* transactions, while the fetch for the second wallet is loading
C30_Witness ==
    /\ endpoint = "transaction-graph"
    /\ Len(effects) = 2
    /\ effects[1].cancelled
    /\ effects[1].pc = "ended"
    /\ effects[1].transactions = 2
    /\ effects[2].pc = "fetching"
    /\ svg = NoGraph
    /\ loading

====
